---- MODULE Spec2Model ----
(***************************************************************************)
(* Star map scroller (Flipper Zero application): the annotation loader,    *)
(* the cursor hit-test, the event loop that pans the camera, the draw      *)
(* callback and the monochrome BMP tile decoder.                           *)
(*                                                                         *)
(* The camera is a pair of C floats.  Every value it takes is an integer   *)
(* below 2^24 (initial 256/288, steps of 4.0f, clamps to 0/512/576), so    *)
(* float arithmetic on it is exact and the camera is modelled by integers. *)
(* Text is a sequence of one-character strings; a file is a sequence of    *)
(* characters (annotations.csv) or of bytes 0..255 (a tile's .bmp).        *)
(***************************************************************************)
EXTENDS Integers, Sequences, FiniteSets, TLC

(***************************************************************************)
(* Configuration constants of the program.                                 *)
(***************************************************************************)
SCREEN_WIDTH == 128
SCREEN_HEIGHT == 64
TILE_WIDTH == 128
TILE_HEIGHT == 64
TILE_COLS == 5
TILE_ROWS == 10
TOTAL_TILES == TILE_COLS * TILE_ROWS
MAP_WIDTH == TILE_COLS * TILE_WIDTH
MAP_HEIGHT == TILE_ROWS * TILE_HEIGHT
CURSOR_RADIUS == 4
MAX_ANNOTATIONS == 200
MAX_ANNOTATION_LENGTH == 64
\* load_annotations refuses a file of more than this many bytes
MAX_FILE_SIZE == 16384
\* const float move_speed = 4.0f
move_speed == 4
\* uint8_t header[54]
BMP_HEADER_SIZE == 54

(***************************************************************************)
(* Bounds of the model (not program constants).                            *)
(***************************************************************************)
\* data lines after the header in an enumerated annotation source
MaxDataLines == 2

(***************************************************************************)
(* C arithmetic: / and % on int truncate toward zero.                      *)
(***************************************************************************)
CDiv(a, b) == IF a >= 0 THEN a \div b ELSE -((-a) \div b)
CMod(a, b) == a - b * CDiv(a, b)
Min(a, b) == IF a <= b THEN a ELSE b

\* strncpy(dst, src, n) followed by dst[n] = '\0': at most n characters kept
Strncpy(src, n) == SubSeq(src, 1, Min(Len(src), n))

(***************************************************************************)
(* sscanf(line, "%d,%d,%d,%63[^\r\n]", &tile_num, &x, &y, text)            *)
(***************************************************************************)
IsSpace(c) == c \in {" ", "\t"}
IsDigit(c) == c \in {"0", "1", "2", "3", "4", "5", "6", "7", "8", "9"}
DigitVal(c) ==
    CASE c = "0" -> 0 [] c = "1" -> 1 [] c = "2" -> 2 [] c = "3" -> 3
      [] c = "4" -> 4 [] c = "5" -> 5 [] c = "6" -> 6 [] c = "7" -> 7
      [] c = "8" -> 8 [] c = "9" -> 9

RECURSIVE SkipSpace(_, _)
SkipSpace(s, i) ==
    IF i <= Len(s) /\ IsSpace(s[i]) THEN SkipSpace(s, i + 1) ELSE i

RECURSIVE ScanDigits(_, _, _)
ScanDigits(s, i, acc) ==
    IF i <= Len(s) /\ IsDigit(s[i])
    THEN ScanDigits(s, i + 1, acc * 10 + DigitVal(s[i]))
    ELSE [val |-> acc, next |-> i]

\* one %d conversion at position i: leading white space is skipped, an
\* optional sign is taken, at least one digit is needed.  eof: the input
\* ended before any character of the number.
ScanInt(s, i) ==
    LET j == SkipSpace(s, i)
        signed == j <= Len(s) /\ s[j] \in {"-", "+"}
        k == IF signed THEN j + 1 ELSE j
        d == ScanDigits(s, k, 0)
    IN  IF d.next = k
        THEN [ok |-> FALSE, eof |-> j > Len(s), val |-> 0, next |-> k]
        ELSE [ok |-> TRUE, eof |-> FALSE,
              val |-> IF signed /\ s[j] = "-" THEN -d.val ELSE d.val,
              next |-> d.next]

\* a literal ',' of the format at position i
MatchComma(s, i) == i <= Len(s) /\ s[i] = ","

\* The whole call: n is sscanf's return value (the number of conversions
\* assigned, -1 for EOF before the first), the other fields what was stored.
\* %63[^\r\n] needs at least one character and takes at most 63; the line
\* holds no \r or \n any more when sscanf is called.
Sscanf(s) ==
    LET a == ScanInt(s, 1)
        b == ScanInt(s, a.next + 1)
        c == ScanInt(s, b.next + 1)
        rest == SubSeq(s, c.next + 1, Len(s))
        none == [n |-> 0, tile_num |-> 0, x |-> 0, y |-> 0, text |-> <<>>]
    IN  IF ~a.ok THEN [none EXCEPT !.n = IF a.eof THEN -1 ELSE 0]
        ELSE IF ~MatchComma(s, a.next) \/ ~b.ok
             THEN [none EXCEPT !.n = 1, !.tile_num = a.val]
        ELSE IF ~MatchComma(s, b.next) \/ ~c.ok
             THEN [none EXCEPT !.n = 2, !.tile_num = a.val, !.x = b.val]
        ELSE IF ~MatchComma(s, c.next) \/ rest = <<>>
             THEN [none EXCEPT !.n = 3, !.tile_num = a.val, !.x = b.val,
                               !.y = c.val]
        ELSE [n |-> 4, tile_num |-> a.val, x |-> b.val, y |-> c.val,
              text |-> SubSeq(rest, 1, Min(Len(rest), MAX_ANNOTATION_LENGTH - 1))]

(***************************************************************************)
(* Annotation sources.  A source is the file annotations.csv: whether it   *)
(* opens, and its text, given as lines joined by an end-of-line sequence.  *)
(* Each line carries, beside its characters, the record a reader of the    *)
(* format "tile_index,x,y,label" expects from it (rec: empty when the line *)
(* is not a valid data line); the loader never reads rec.                  *)
(***************************************************************************)
Rec(t, px, py, label) == [tile_number |-> t, x |-> px, y |-> py, text |-> label]

HeaderLine ==
    [chars |-> <<"t","i","l","e",",","x",",","y",",","l","a","b","e","l">>,
     rec |-> <<>>]
\* a first line that has the shape of a data line
DataShapedHeader ==
    [chars |-> <<"1","2",",","6","8",",","3","2",",","H","d","r">>,
     rec |-> <<Rec(12, 68, 32, <<"H","d","r">>)>>]

PolarisLine ==
    [chars |-> <<"2","7",",","6","4",",","3","2",",","P","o","l","a","r","i","s">>,
     rec |-> <<Rec(27, 64, 32, <<"P","o","l","a","r","i","s">>)>>]
ThreeFieldLine == [chars |-> <<"5",",","1","0",",","1","0">>, rec |-> <<>>]
NonNumericLine ==
    [chars |-> <<"7",",","x","4",",","1","0",",","B","a","d">>, rec |-> <<>>]
EmptyLabelLine == [chars |-> <<"5",",","1","0",",","1","0",",">>, rec |-> <<>>]
EmptyLine == [chars |-> <<>>, rec |-> <<>>]
Tile50Line ==
    [chars |-> <<"5","0",",","1",",","2",",","O","u","t">>, rec |-> <<>>]
NegativeTileLine ==
    [chars |-> <<"-","1",",","1",",","2",",","N","e","g">>, rec |-> <<>>]
CommaLabelLine ==
    [chars |-> <<"4","9",",","0",",","6","3",",","A",",","b">>,
     rec |-> <<Rec(49, 0, 63, <<"A",",","b">>)>>]
\* coordinates outside the tile: the line still has four fields
FarLine ==
    [chars |-> <<"2","7",",","1","3","0",",","7","0",",","F","a","r">>,
     rec |-> <<Rec(27, 130, 70, <<"F","a","r">>)>>]

DataLines ==
    {PolarisLine, ThreeFieldLine, NonNumericLine, EmptyLabelLine, EmptyLine,
     Tile50Line, NegativeTileLine, CommaLabelLine, FarLine}

LF == <<"\n">>
CRLF == <<"\r", "\n">>

RECURSIVE JoinRange(_, _, _, _, _)
\* the lines lo .. hi, each with its end-of-line sequence e (the last line
\* of ls has one only when fin), joined half by half
JoinRange(ls, lo, hi, e, fin) ==
    IF lo > hi THEN <<>>
    ELSE IF lo = hi
         THEN ls[lo].chars \o (IF lo < Len(ls) \/ fin THEN e ELSE <<>>)
    ELSE JoinRange(ls, lo, (lo + hi) \div 2, e, fin)
         \o JoinRange(ls, ((lo + hi) \div 2) + 1, hi, e, fin)
JoinLines(ls, i, e, fin) == JoinRange(ls, i, Len(ls), e, fin)

RECURSIVE ExpectedRange(_, _, _)
ExpectedRange(ls, lo, hi) ==
    IF lo > hi THEN <<>>
    ELSE IF lo = hi THEN ls[lo].rec
    ELSE ExpectedRange(ls, lo, (lo + hi) \div 2)
         \o ExpectedRange(ls, ((lo + hi) \div 2) + 1, hi)
\* the records of the valid data lines from line i on, in source order
ExpectedFrom(ls, i) == ExpectedRange(ls, i, Len(ls))

\* data: the bytes of the file; expect: the records of the valid data lines
\* after the first line (what a reader of the format expects to be loaded,
\* capacity aside); the loader never reads expect.
Source(open, ls, e, fin) ==
    [openable |-> open, data |-> JoinLines(ls, 1, e, fin),
     expect |-> ExpectedFrom(ls, 2)]

RECURSIVE SeqsUpTo(_, _)
\* every sequence of at most n elements of S
SeqsUpTo(S, n) ==
    IF n = 0 THEN {<<>>}
    ELSE LET shorter == SeqsUpTo(S, n - 1)
         IN  shorter \cup {Append(q, e) : q \in shorter, e \in S}

\* header + up to MaxDataLines data lines, in three line-ending styles
EnumeratedSources ==
    {Source(TRUE, <<h>> \o ls, style[1], style[2]) :
        h \in {HeaderLine, DataShapedHeader},
        ls \in SeqsUpTo(DataLines, MaxDataLines),
        style \in {<<LF, TRUE>>, <<LF, FALSE>>, <<CRLF, TRUE>>}}

\* a label of 70 characters: sscanf stores its first 63
LongLabel == [i \in 1..70 |-> IF i <= 63 THEN "a" ELSE "z"]
LongLabelLine ==
    [chars |-> <<"3",",","1",",","2",",">> \o LongLabel,
     rec |-> <<Rec(3, 1, 2, [i \in 1..63 |-> "a"])>>]
LongLabelSource == Source(TRUE, <<HeaderLine, LongLabelLine, PolarisLine>>, LF, TRUE)

\* a file of more than MAX_FILE_SIZE bytes: a comment-like long label
\* between two ordinary data lines
HugeLabelLine ==
    [chars |-> <<"3",",","1",",","2",",">> \o [i \in 1..MAX_FILE_SIZE |-> "a"],
     rec |-> <<Rec(3, 1, 2, [i \in 1..63 |-> "a"])>>]
OversizeSource ==
    Source(TRUE, <<HeaderLine, PolarisLine, HugeLabelLine, CommaLabelLine>>, LF, TRUE)

\* more valid data lines than MAX_ANNOTATIONS: the header, then
\* MAX_ANNOTATIONS + 1 lines of 16 characters, alternately Polaris and Capella
CapellaLine ==
    [chars |-> <<"1","0",",","2","0",",","3","0",",","C","a","p","e","l","l","a">>,
     rec |-> <<Rec(10, 20, 30, <<"C","a","p","e","l","l","a">>)>>]
CapacityLine(i) == IF i % 2 = 1 THEN PolarisLine ELSE CapellaLine
CapacitySource ==
    [openable |-> TRUE,
     data |-> HeaderLine.chars \o LF \o
              [k \in 1..((MAX_ANNOTATIONS + 1) * 17) |->
                  IF (k - 1) % 17 = 16 THEN "\n"
                  ELSE CapacityLine(((k - 1) \div 17) + 1).chars[((k - 1) % 17) + 1]],
     expect |-> [i \in 1..(MAX_ANNOTATIONS + 1) |-> CapacityLine(i).rec[1]]]

\* the same lines followed by a line that brings the file over MAX_FILE_SIZE
OversizeCapacitySource ==
    [openable |-> TRUE,
     data |-> CapacitySource.data \o HugeLabelLine.chars \o LF,
     expect |-> CapacitySource.expect \o HugeLabelLine.rec]

MissingSource == Source(FALSE, <<>>, LF, FALSE)
\* a file of size 0
EmptySource == Source(TRUE, <<>>, LF, FALSE)

SpecialSources ==
    {LongLabelSource, OversizeSource, CapacitySource, OversizeCapacitySource,
     MissingSource, EmptySource}

FileData(src) == src.data
ExpectedRecords(src) == src.expect

(***************************************************************************)
(* State.                                                                  *)
(***************************************************************************)
VARIABLES
    \* ScrollerState
    camera_x, camera_y,         \* top-left of the viewport, world pixels
    annotations,                \* annotations[0 .. annotation_count-1]
    has_annotation, current_annotation,
    \* scroller_main
    main_pc,                    \* "load", "loop" or "exit"
    frame,                      \* what the draw callback drew for the last
                                \* view_port_update; NoFrame while it is pending
    event,                      \* InputEvent event, while an iteration of the
                                \* loop is stepped through; NoEvent before
    running,                    \* bool running
    dequeued,                   \* events taken from the queue, while counted
    \* load_annotations
    source,                     \* the file annotations.csv
    load_pc,                    \* "open", "loop" or "done"
    buffer,                     \* the file's bytes, read in one piece
    line,                       \* index in buffer of char* line; 0 is NULL
    first_line,
    load_ret,                   \* the value load_annotations returned
    \* scroller_draw_callback and draw_tile_bmp, statement by statement
    disk,                       \* which tile files the SD card holds
    draw_pc,                    \* where the draw callback is
    tile_k,                     \* position of the row/col loops in VisibleTiles
    file_pos,                   \* read position of the open tile file
    bmp_row,                    \* draw_tile_bmp's loop variable row
    success,                    \* draw_tile_bmp's result
    dots,                       \* canvas_draw_dot calls: <<tile, x, y>>
    placeholders,               \* fallback frames drawn: [tile, x, y, text]
    attempts,                   \* the tiles draw_tile_bmp was called for, in order
    returned,                   \* the values those calls returned, in order
    cursor_drawn, banner_drawn,
    \* scroller.c, the variant with tiles.csv
    tiles,                      \* tiles[0 .. tile_count-1]: [row, col, filename]
    csv_line,                   \* the line handed to parse_csv_line
    csv_result,                 \* what parse_csv_line returned and wrote
    \* the input queue
    queue,                      \* the events in event_queue, oldest first
    arrived,                    \* every event the input callback was called with
    get_log                     \* every event the loop has got

loopVars == <<camera_x, camera_y, has_annotation, current_annotation, main_pc,
              frame, event, running, dequeued>>
loadVars == <<source, load_pc, buffer, line, first_line, load_ret>>
drawVars == <<disk, draw_pc, tile_k, file_pos, bmp_row, success, dots,
              placeholders, attempts, returned, cursor_drawn, banner_drawn>>

csvVars == <<tiles, csv_line, csv_result>>
queueVars == <<queue, arrived, get_log>>

annotation_count == Len(annotations)
\* parse_csv_line not called: no field count, nothing written
NoResult == [field_count |-> 0, written |-> {}]
\* the variables of the variant while the variant is not run
CsvIdle ==
    /\ tiles = <<>>
    /\ csv_line = <<>>
    /\ csv_result = NoResult
\* the variables of the queue while the queue is not modelled
QueueIdle ==
    /\ queue = <<>>
    /\ arrived = <<>>
    /\ get_log = <<>>
NoFrame == [drawn |-> FALSE]
NoEvent == [type |-> "None", key |-> "None"]

(***************************************************************************)
(* load_annotations.  The loader's locals are gathered in a record so that *)
(* one loop iteration is an operator: the loader is stepped by             *)
(* LoadAnnotationsStep and run to completion by LoadAnnotations.           *)
(***************************************************************************)
\* strchr from index i: the index of the first c, 0 (NULL) when there is none
Strchr(buf, c, i) ==
    IF \E j \in i..Len(buf) : buf[j] = c
    THEN CHOOSE j \in i..Len(buf) :
             buf[j] = c /\ \A k \in i..(j - 1) : buf[k] # c
    ELSE 0

LoadStart(src) ==
    [pc |-> "open", buffer |-> <<>>, line |-> 0, first_line |-> TRUE,
     annotations |-> <<>>, ret |-> FALSE]

\* storage_file_open, the size check, the read of the whole file
LoadOpen(src, L) ==
    LET file_size == Len(FileData(src))
    IN  IF ~src.openable THEN [L EXCEPT !.pc = "done", !.ret = FALSE]
        ELSE IF file_size = 0 \/ file_size > MAX_FILE_SIZE
             THEN [L EXCEPT !.pc = "done", !.ret = FALSE]
        ELSE [L EXCEPT !.pc = "loop", !.buffer = FileData(src), !.line = 1,
                       !.first_line = TRUE]

\* a variant of StoreLine that is content with three fields
StoreLineThreeFields(anns, cur) ==
    LET f == Sscanf(cur)
    IN  IF f.n >= 3 /\ f.tile_num >= 0 /\ f.tile_num < TOTAL_TILES
        THEN Append(anns, [tile_number |-> f.tile_num, x |-> f.x, y |-> f.y,
                           text |-> Strncpy(f.text, MAX_ANNOTATION_LENGTH - 1)])
        ELSE anns

\* if(sscanf(...) == 4) if(tile_num >= 0 && tile_num < TOTAL_TILES) store
StoreLine(anns, cur) ==
    LET f == Sscanf(cur)
    IN  IF f.n = 4 /\ f.tile_num >= 0 /\ f.tile_num < TOTAL_TILES
        THEN Append(anns, [tile_number |-> f.tile_num, x |-> f.x, y |-> f.y,
                           text |-> Strncpy(f.text, MAX_ANNOTATION_LENGTH - 1)])
        ELSE anns

\* the text of the line at index i once its '\n' and its first '\r' are
\* overwritten by '\0', and the index of the next line (0: there is none)
CutLine(buf, i) ==
    LET nl == Strchr(buf, "\n", i)
        upto == IF nl = 0 THEN SubSeq(buf, i, Len(buf)) ELSE SubSeq(buf, i, nl - 1)
        cr == Strchr(upto, "\r", 1)
    IN  [text |-> IF cr = 0 THEN upto ELSE SubSeq(upto, 1, cr - 1),
         next_line |-> IF nl = 0 THEN 0 ELSE nl + 1]

\* a variant of LoadLoop that ends the loop at the first line it does not
\* store
LoadLoopStopAtBadLine(L) ==
    IF ~(L.line # 0 /\ L.line <= Len(L.buffer)
         /\ Len(L.annotations) < MAX_ANNOTATIONS)
    THEN [L EXCEPT !.pc = "done", !.buffer = <<>>, !.line = 0,
                   !.ret = Len(L.annotations) > 0]
    ELSE LET c == CutLine(L.buffer, L.line)
             stored == StoreLine(L.annotations, c.text)
         IN  IF L.first_line
             THEN [L EXCEPT !.first_line = FALSE, !.line = c.next_line]
             ELSE [L EXCEPT !.annotations = stored,
                            !.line = IF stored = L.annotations THEN 0
                                     ELSE c.next_line]

\* a variant of LoadLoop that parses the first line like any other
LoadLoopKeepHeader(L) ==
    IF ~(L.line # 0 /\ L.line <= Len(L.buffer)
         /\ Len(L.annotations) < MAX_ANNOTATIONS)
    THEN [L EXCEPT !.pc = "done", !.buffer = <<>>, !.line = 0,
                   !.ret = Len(L.annotations) > 0]
    ELSE LET c == CutLine(L.buffer, L.line)
         IN  [L EXCEPT !.first_line = FALSE,
                       !.annotations = StoreLine(L.annotations, c.text),
                       !.line = c.next_line]

\* a variant of LoadLoop whose while condition lets one more record in
LoadLoopOneMore(L) ==
    IF ~(L.line # 0 /\ L.line <= Len(L.buffer)
         /\ Len(L.annotations) <= MAX_ANNOTATIONS)
    THEN [L EXCEPT !.pc = "done", !.buffer = <<>>, !.line = 0,
                   !.ret = Len(L.annotations) > 0]
    ELSE LET c == CutLine(L.buffer, L.line)
         IN  IF L.first_line
             THEN [L EXCEPT !.first_line = FALSE, !.line = c.next_line]
             ELSE [L EXCEPT !.annotations = StoreLine(L.annotations, c.text),
                            !.line = c.next_line]

\* one test of the while condition and, when it holds, one iteration
LoadLoop(L) ==
    IF ~(L.line # 0 /\ L.line <= Len(L.buffer)
         /\ Len(L.annotations) < MAX_ANNOTATIONS)
    THEN \* free(buffer); return state->annotation_count > 0;
         [L EXCEPT !.pc = "done", !.buffer = <<>>, !.line = 0,
                   !.ret = Len(L.annotations) > 0]
    ELSE LET c == CutLine(L.buffer, L.line)
         IN  IF L.first_line
             THEN [L EXCEPT !.first_line = FALSE, !.line = c.next_line]
             ELSE [L EXCEPT !.annotations = StoreLine(L.annotations, c.text),
                            !.line = c.next_line]

LoadStep(src, L) == IF L.pc = "open" THEN LoadOpen(src, L) ELSE LoadLoop(L)

RECURSIVE LoadSteps(_, _, _)
\* n steps from L on, or the steps to the end of the call if they are fewer
LoadSteps(src, L, n) ==
    IF L.pc = "done" \/ n = 0 THEN L
    ELSE IF n = 1 THEN LoadStep(src, L)
    ELSE LoadSteps(src, LoadSteps(src, L, n \div 2), n - (n \div 2))
\* the steps up to the return: every iteration of the loop takes at least one
\* character of the file
LoadRun(src, L) == LoadSteps(src, L, Len(FileData(src)) + 2)
\* the whole call
LoadAnnotations(src) == LoadRun(src, LoadStart(src))

LoaderState ==
    [pc |-> load_pc, buffer |-> buffer, line |-> line, first_line |-> first_line,
     annotations |-> annotations, ret |-> load_ret]

LoadAnnotationsStep ==
    /\ main_pc = "load"
    /\ load_pc # "done"
    /\ LET n == LoadStep(source, LoaderState)
       IN  /\ load_pc' = n.pc
           /\ buffer' = n.buffer
           /\ line' = n.line
           /\ first_line' = n.first_line
           /\ annotations' = n.annotations
           /\ load_ret' = n.ret
    /\ UNCHANGED <<source, loopVars, drawVars, csvVars, queueVars>>

(***************************************************************************)
(* Tile arithmetic and the hit-test (check_annotations).                   *)
(***************************************************************************)
\* a variant of row_col_to_tile_num that multiplies by the number of rows
row_col_to_tile_numByRows(r, c) == r * TILE_ROWS + c

row_col_to_tile_num(r, c) == r * TILE_COLS + c

\* a variant of WithinRadius with the boundary excluded
WithinRadiusStrict(dx, dy) == dx * dx + dy * dy < CURSOR_RADIUS * CURSOR_RADIUS

\* int dist_sq = dx * dx + dy * dy; dist_sq <= CURSOR_RADIUS * CURSOR_RADIUS
WithinRadius(dx, dy) == dx * dx + dy * dy <= CURSOR_RADIUS * CURSOR_RADIUS

\* a variant of ScanAnnotations that goes on to the end of the table and
\* keeps the last record within the radius
ScanAnnotationsLast(anns, i, cursor_tile_num, tile_local_x, tile_local_y) ==
    LET hits == {j \in i..Len(anns) :
                    /\ anns[j].tile_number = cursor_tile_num
                    /\ WithinRadius(tile_local_x - anns[j].x,
                                    tile_local_y - anns[j].y)}
    IN  IF hits = {} THEN [has_annotation |-> FALSE, current_annotation |-> <<>>]
        ELSE [has_annotation |-> TRUE,
              current_annotation |->
                  anns[CHOOSE j \in hits : \A h \in hits : h <= j].text]

\* the for loop over annotations[i], i = 0 .. annotation_count-1 (here 1 ..):
\* the first record of the tile within the radius ends the loop
ScanAnnotations(anns, i, cursor_tile_num, tile_local_x, tile_local_y) ==
    LET hits == {j \in i..Len(anns) :
                    /\ anns[j].tile_number = cursor_tile_num
                    /\ WithinRadius(tile_local_x - anns[j].x,
                                    tile_local_y - anns[j].y)}
    IN  IF hits = {} THEN [has_annotation |-> FALSE, current_annotation |-> <<>>]
        ELSE [has_annotation |-> TRUE,
              current_annotation |->
                  Strncpy(anns[CHOOSE j \in hits : \A h \in hits : j <= h].text,
                          MAX_ANNOTATION_LENGTH - 1)]

\* the locals check_annotations computes from the camera: the cursor's world
\* position, its tile column, row and number, and its position in the tile
CursorTile(cx, cy) ==
    LET cursor_world_x == cx + CDiv(SCREEN_WIDTH, 2)
        cursor_world_y == cy + CDiv(SCREEN_HEIGHT, 2)
        cursor_tile_col == CDiv(cursor_world_x, TILE_WIDTH)
        cursor_tile_row == CDiv(cursor_world_y, TILE_HEIGHT)
    IN  [cursor_tile_col |-> cursor_tile_col,
         cursor_tile_row |-> cursor_tile_row,
         cursor_tile_num |-> row_col_to_tile_num(cursor_tile_row, cursor_tile_col),
         tile_local_x |-> CMod(cursor_world_x, TILE_WIDTH),
         tile_local_y |-> CMod(cursor_world_y, TILE_HEIGHT)]

\* check_annotations on camera (cx, cy) and the table anns: the values it
\* leaves in has_annotation and current_annotation
check_annotations(cx, cy, anns) ==
    LET t == CursorTile(cx, cy)
    IN  IF t.cursor_tile_num < 0 \/ t.cursor_tile_num >= TOTAL_TILES
        THEN [has_annotation |-> FALSE, current_annotation |-> <<>>]
        ELSE ScanAnnotations(anns, 1, t.cursor_tile_num,
                             t.tile_local_x, t.tile_local_y)

(***************************************************************************)
(* The event loop of scroller_main.                                        *)
(***************************************************************************)
InputTypes == {"Press", "Release", "Short", "Long", "Repeat"}
InputKeys == {"Up", "Down", "Right", "Left", "Ok", "Back", "Other"}

\* a variant of ClampHigh that leaves the value as it is
ClampHighOff(v, max) == v

\* a variant of ClampLow that leaves the value as it is
ClampLowOff(v) == v

\* a variant of ClampHigh that stops one pixel before the bound
ClampHighLastPixel(v, max) == IF v > max - 1 THEN max - 1 ELSE v

ClampLow(v) == IF v < 0 THEN 0 ELSE v
ClampHigh(v, max) == IF v > max THEN max ELSE v

\* the switch on event.key: the camera it leaves
MoveCamera(key, cx, cy) ==
    CASE key = "Up" -> <<cx, ClampLow(cy - move_speed)>>
      [] key = "Down" -> <<cx, ClampHigh(cy + move_speed, MAP_HEIGHT - SCREEN_HEIGHT)>>
      [] key = "Left" -> <<ClampLow(cx - move_speed), cy>>
      [] key = "Right" -> <<ClampHigh(cx + move_speed, MAP_WIDTH - SCREEN_WIDTH), cy>>
      [] OTHER -> <<cx, cy>>

\* a variant of Recheck that keeps the result stored before the event
RecheckStale(cx, cy, anns) ==
    [has_annotation |-> has_annotation, current_annotation |-> current_annotation]

\* the hit-test result stored after the switch
Recheck(cx, cy, anns) == check_annotations(cx, cy, anns)

\* furi_message_queue_get returned an event: one iteration of the loop
ProcessEvent(type, key) ==
    /\ main_pc = "loop"
    /\ IF type \in {"Press", "Repeat"}
       THEN LET cam == MoveCamera(key, camera_x, camera_y)
                hit == Recheck(cam[1], cam[2], annotations)
            IN  /\ camera_x' = cam[1]
                /\ camera_y' = cam[2]
                /\ has_annotation' = hit.has_annotation
                /\ current_annotation' = hit.current_annotation
                /\ frame' = NoFrame              \* view_port_update
                /\ running' = (key # "Back")
                /\ main_pc' = IF key = "Back" THEN "exit" ELSE "loop"
                /\ UNCHANGED <<event, dequeued>>
       ELSE UNCHANGED loopVars
    /\ UNCHANGED <<annotations, loadVars, csvVars, queueVars, drawVars>>

\* furi_message_queue_get timed out after 100 ms: nothing is done
QueueTimeout ==
    /\ main_pc = "loop"
    /\ UNCHANGED <<annotations, loopVars, loadVars, csvVars, queueVars, drawVars>>

(***************************************************************************)
(* scroller_draw_callback: the tiles it enumerates, the cursor, the banner *)
(***************************************************************************)
\* a variant of VisibleRange whose end is the tile of the last screen pixel
VisibleRangeLastPixel(cx, cy) ==
    LET end_tile_col == CDiv(cx + SCREEN_WIDTH - 1, TILE_WIDTH)
        end_tile_row == CDiv(cy + SCREEN_HEIGHT - 1, TILE_HEIGHT)
    IN  [start_tile_col |-> CDiv(cx, TILE_WIDTH),
         start_tile_row |-> CDiv(cy, TILE_HEIGHT),
         end_tile_col |-> IF end_tile_col >= TILE_COLS THEN TILE_COLS - 1
                          ELSE end_tile_col,
         end_tile_row |-> IF end_tile_row >= TILE_ROWS THEN TILE_ROWS - 1
                          ELSE end_tile_row]

\* start/end tile column and row after the clamps
VisibleRange(cx, cy) ==
    LET start_tile_col == CDiv(cx, TILE_WIDTH)
        start_tile_row == CDiv(cy, TILE_HEIGHT)
        end_tile_col == CDiv(cx + SCREEN_WIDTH, TILE_WIDTH)
        end_tile_row == CDiv(cy + SCREEN_HEIGHT, TILE_HEIGHT)
    IN  [start_tile_col |-> IF start_tile_col < 0 THEN 0 ELSE start_tile_col,
         start_tile_row |-> IF start_tile_row < 0 THEN 0 ELSE start_tile_row,
         end_tile_col |-> IF end_tile_col >= TILE_COLS THEN TILE_COLS - 1
                          ELSE end_tile_col,
         end_tile_row |-> IF end_tile_row >= TILE_ROWS THEN TILE_ROWS - 1
                          ELSE end_tile_row]

\* a variant of VisibleTiles that draws every tile at its world position
VisibleTilesAtWorld(cx, cy) ==
    LET v == VisibleRange(cx, cy)
        nrows == v.end_tile_row - v.start_tile_row + 1
        ncols == v.end_tile_col - v.start_tile_col + 1
    IN  IF nrows <= 0 \/ ncols <= 0 THEN <<>>
        ELSE [k \in 1..(nrows * ncols) |->
                LET r == v.start_tile_row + ((k - 1) \div ncols)
                    c == v.start_tile_col + ((k - 1) % ncols)
                IN  [tile_num |-> row_col_to_tile_num(r, c),
                     screen_x |-> c * TILE_WIDTH,
                     screen_y |-> r * TILE_HEIGHT]]

\* the tiles in the order the two for loops visit them, each with the screen
\* position it is drawn at
VisibleTiles(cx, cy) ==
    LET v == VisibleRange(cx, cy)
        nrows == v.end_tile_row - v.start_tile_row + 1
        ncols == v.end_tile_col - v.start_tile_col + 1
    IN  IF nrows <= 0 \/ ncols <= 0 THEN <<>>
        ELSE [k \in 1..(nrows * ncols) |->
                LET r == v.start_tile_row + ((k - 1) \div ncols)
                    c == v.start_tile_col + ((k - 1) % ncols)
                IN  [tile_num |-> row_col_to_tile_num(r, c),
                     screen_x |-> c * TILE_WIDTH - cx,
                     screen_y |-> r * TILE_HEIGHT - cy]]

\* if(state->has_annotation): the box, the label and the "OK" indicator
Banner(has, text) ==
    IF has THEN [box |-> TRUE, label |-> text, ok_indicator |-> TRUE]
    ELSE [box |-> FALSE, label |-> <<>>, ok_indicator |-> FALSE]

DrawCallback ==
    /\ main_pc = "loop"
    /\ frame = NoFrame
    /\ frame' = [drawn |-> TRUE,
                 tiles |-> VisibleTiles(camera_x, camera_y),
                 cursor |-> <<CDiv(SCREEN_WIDTH, 2), CDiv(SCREEN_HEIGHT, 2), CURSOR_RADIUS>>,
                 banner |-> Banner(has_annotation, current_annotation)]
    /\ UNCHANGED <<camera_x, camera_y, has_annotation, current_annotation,
                   main_pc, event, running, dequeued, annotations, loadVars, csvVars, queueVars,
                   drawVars>>

(***************************************************************************)
(* Tile files.  A file is whether it opens and its bytes.                  *)
(***************************************************************************)
\* little-endian bytes of a number 0 .. 2^31 - 1
LE32(v) == <<v % 256, (v \div 256) % 256, (v \div 65536) % 256, (v \div 16777216) % 256>>
LE16(v) == <<v % 256, (v \div 256) % 256>>

\* a 54-byte BMP header: signature, pixel-data offset, width, height, depth
HeaderBytes(sig, off4, w4, h4, bpp2) ==
    [n \in 1..54 |->
        LET i == n - 1
        IN  CASE i \in 0..1 -> sig[i + 1]
              [] i \in 10..13 -> off4[i - 9]
              [] i = 14 -> 40
              [] i \in 18..21 -> w4[i - 17]
              [] i \in 22..25 -> h4[i - 21]
              [] i = 26 -> 1
              [] i \in 28..29 -> bpp2[i - 27]
              [] OTHER -> 0]

\* pixel data: 64 strides of 16 bytes; P[k, j] is byte j of the k-th stride
Pixels(P) == [n \in 1..1024 |-> P[(n - 1) \div 16, (n - 1) % 16]]
SparsePattern ==
    [k \in 0..63, j \in 0..15 |->
        CASE k = 0 /\ j = 0 -> 128
          [] k = 0 /\ j = 15 -> 1
          [] k = 1 /\ j = 1 -> 165
          [] k = 31 /\ j = 8 -> 255
          [] k = 63 /\ j = 0 -> 192
          [] k = 63 /\ j = 15 -> 3
          [] OTHER -> 0]
ScatterPattern ==
    [k \in 0..63, j \in 0..15 |->
        IF (k + j) % 7 = 0 THEN (k * 3 + j * 5 + 1) % 256 ELSE 0]

BM == <<66, 77>>
Palette == <<0, 0, 0, 0, 255, 255, 255, 0>>
File(bytes) == [exists |-> TRUE, bytes |-> bytes]

\* what a 1-bit BMP writer produces: header, two palette entries, pixels
GoodFile ==
    File(HeaderBytes(BM, LE32(62), LE32(128), LE32(64), LE16(1))
         \o Palette \o Pixels(SparsePattern))
\* pixel data right behind the header
GoodFile54 ==
    File(HeaderBytes(BM, LE32(54), LE32(128), LE32(64), LE16(1))
         \o Pixels(ScatterPattern))
MissingFile == [exists |-> FALSE, bytes |-> <<>>]
ShortHeaderFile == File(SubSeq(GoodFile.bytes, 1, 53))
BadSignatureFile ==
    File(HeaderBytes(<<66, 78>>, LE32(62), LE32(128), LE32(64), LE16(1))
         \o Palette \o Pixels(SparsePattern))
PngFile ==
    File(HeaderBytes(<<137, 80>>, LE32(62), LE32(128), LE32(64), LE16(1))
         \o Palette \o Pixels(SparsePattern))
WrongWidthFile ==
    File(HeaderBytes(BM, LE32(62), LE32(384), LE32(64), LE16(1))
         \o Palette \o Pixels(SparsePattern))
\* a top-down bitmap: height -64
TopDownFile ==
    File(HeaderBytes(BM, LE32(62), LE32(128), <<192, 255, 255, 255>>, LE16(1))
         \o Palette \o Pixels(SparsePattern))
WrongHeightFile ==
    File(HeaderBytes(BM, LE32(62), LE32(128), LE32(128), LE16(1))
         \o Palette \o Pixels(SparsePattern))
WrongDepthFile ==
    File(HeaderBytes(BM, LE32(62), LE32(128), LE32(64), LE16(257))
         \o Palette \o Pixels(SparsePattern))
\* ten strides and five bytes of the eleventh
TruncatedFile == File(SubSeq(GoodFile54.bytes, 1, 54 + 10 * 16 + 5))
\* the pixel-data offset is the end of the file
NoPixelsFile == File(HeaderBytes(BM, LE32(54), LE32(128), LE32(64), LE16(1)))
OffsetPastEndFile ==
    File(HeaderBytes(BM, LE32(5000), LE32(128), LE32(64), LE16(1))
         \o Palette \o Pixels(SparsePattern))

FileKinds ==
    <<GoodFile, MissingFile, TruncatedFile, BadSignatureFile, GoodFile54,
      ShortHeaderFile, WrongWidthFile, TopDownFile, WrongDepthFile,
      NoPixelsFile, PngFile, WrongHeightFile, OffsetPastEndFile>>

\* the SD card d holds, for tile t, the file FileKinds[((t + d) mod n) + 1];
\* the last card holds a well-formed file for every tile
Disks == 0..Len(FileKinds)
AllGoodDisk == Len(FileKinds)
TileFile(d, t) ==
    IF d = AllGoodDisk THEN (IF t % 2 = 0 THEN GoodFile ELSE GoodFile54)
    ELSE FileKinds[((t + d) % Len(FileKinds)) + 1]

(***************************************************************************)
(* draw_tile_bmp                                                           *)
(***************************************************************************)
\* storage_file_read of n bytes at position pos: the bytes delivered
FileRead(f, pos, n) == SubSeq(f.bytes, pos + 1, Min(pos + n, Len(f.bytes)))
\* storage_file_seek from the start: the position cannot pass the end
FileSeek(f, offset) == Min(offset, Len(f.bytes))

\* header[i]
Hdr(header, i) == header[i + 1]
\* b0 | b1 << 8 | b2 << 16 | b3 << 24 stored in an int32_t
Int32LE(header, i) ==
    Hdr(header, i) + 256 * Hdr(header, i + 1) + 65536 * Hdr(header, i + 2)
    + 16777216 * (IF Hdr(header, i + 3) >= 128 THEN Hdr(header, i + 3) - 256
                  ELSE Hdr(header, i + 3))
\* the same stored in a uint32_t; a value of 2^31 or more is past the end of
\* every file and is given as 2^31 - 1
UInt32LE(header, i) ==
    IF Hdr(header, i + 3) >= 128 THEN 2147483647
    ELSE Hdr(header, i) + 256 * Hdr(header, i + 1) + 65536 * Hdr(header, i + 2)
         + 16777216 * Hdr(header, i + 3)
UInt16LE(header, i) == Hdr(header, i) + 256 * Hdr(header, i + 1)

\* a variant of HeaderAccepted without the test of the bit depth
HeaderAcceptedAnyDepth(header) ==
    /\ Len(header) = BMP_HEADER_SIZE
    /\ Hdr(header, 0) = 66 /\ Hdr(header, 1) = 77
    /\ Int32LE(header, 18) = TILE_WIDTH
    /\ Int32LE(header, 22) = TILE_HEIGHT

\* if(bytes_read == 54) if(header[0] == 'B' && header[1] == 'M')
\*   if(width == TILE_WIDTH && height == TILE_HEIGHT && bpp == 1)
HeaderAccepted(header) ==
    /\ Len(header) = BMP_HEADER_SIZE
    /\ Hdr(header, 0) = 66 /\ Hdr(header, 1) = 77
    /\ Int32LE(header, 18) = TILE_WIDTH
    /\ Int32LE(header, 22) = TILE_HEIGHT
    /\ UInt16LE(header, 28) = 1

\* int row_size = ((width + 31) / 32) * 4
RowSize(width) == CDiv(width + 31, 32) * 4

\* (row_buffer[byte_idx] >> bit_idx) & 1
Bit(byte, bit_idx) == (byte \div (2 ^ bit_idx)) % 2

\* a variant of RowDots that takes bit 0 of a byte as the leftmost pixel
RowDotsLsbFirst(row_buffer, tile, x, y, r, width) ==
    {<<tile, x + c, y + r>> :
        c \in {c \in 0..(width - 1) :
                 Bit(row_buffer[CDiv(c, 8) + 1], CMod(c, 8)) = 1}}

\* the inner for loop over col: the dots drawn for one row buffer
RowDots(row_buffer, tile, x, y, r, width) ==
    {<<tile, x + c, y + r>> :
        c \in {c \in 0..(width - 1) :
                 Bit(row_buffer[CDiv(c, 8) + 1], 7 - CMod(c, 8)) = 1}}

\* the tile the row/col loops are at
CurrentTile == VisibleTiles(camera_x, camera_y)[tile_k]
CurrentFile == TileFile(disk, CurrentTile.tile_num)

\* storage_file_open
BmpOpen ==
    /\ draw_pc = "open"
    /\ IF CurrentFile.exists
       THEN draw_pc' = "header" /\ file_pos' = 0
       ELSE draw_pc' = "return" /\ file_pos' = file_pos
    /\ UNCHANGED <<disk, tile_k, bmp_row, success, dots, placeholders, attempts,
                   returned, cursor_drawn, banner_drawn>>
    /\ UNCHANGED <<annotations, loopVars, loadVars, csvVars, queueVars>>

\* the read of the header and the three nested checks; on success the seek
\* to the pixel data
BmpHeader ==
    /\ draw_pc = "header"
    /\ LET header == FileRead(CurrentFile, file_pos, BMP_HEADER_SIZE)
       IN  IF HeaderAccepted(header)
           THEN /\ file_pos' = FileSeek(CurrentFile, UInt32LE(header, 10))
                /\ bmp_row' = Int32LE(header, 22) - 1
                /\ draw_pc' = "rows"
           ELSE /\ file_pos' = file_pos + Len(header)
                /\ bmp_row' = bmp_row
                /\ draw_pc' = "return"
    /\ UNCHANGED <<disk, tile_k, success, dots, placeholders, attempts,
                   returned, cursor_drawn, banner_drawn>>
    /\ UNCHANGED <<annotations, loopVars, loadVars, csvVars, queueVars>>

\* the state after a row: the loop goes on, or it ends (the last row was
\* drawn, or a short read broke out of it) and success = true follows
AfterRow(full, r) ==
    IF full /\ r > 0 THEN [pc |-> "rows", success |-> FALSE]
    ELSE [pc |-> "return", success |-> TRUE]

\* one iteration of for(row = height - 1; row >= 0; row--)
BmpRow ==
    /\ draw_pc = "rows"
    /\ LET row_size == RowSize(TILE_WIDTH)
           row_buffer == FileRead(CurrentFile, file_pos, row_size)
           full == Len(row_buffer) = row_size
           after == AfterRow(full, bmp_row)
       IN  /\ file_pos' = file_pos + Len(row_buffer)
           /\ dots' = IF full
                      THEN dots \cup RowDots(row_buffer, CurrentTile.tile_num,
                                             CurrentTile.screen_x,
                                             CurrentTile.screen_y, bmp_row,
                                             TILE_WIDTH)
                      ELSE dots
           /\ bmp_row' = IF full THEN bmp_row - 1 ELSE bmp_row
           /\ draw_pc' = after.pc
           /\ success' = after.success
    /\ UNCHANGED <<disk, tile_k, placeholders, attempts, returned, cursor_drawn,
                   banner_drawn>>
    /\ UNCHANGED <<annotations, loopVars, loadVars, csvVars, queueVars>>

(***************************************************************************)
(* scroller_draw_callback, statement by statement                          *)
(***************************************************************************)
\* snprintf(tile_text, sizeof(tile_text), "%02d", tile_num), 0 <= tile_num < 100
DigitChar(d) ==
    CASE d = 0 -> "0" [] d = 1 -> "1" [] d = 2 -> "2" [] d = 3 -> "3"
      [] d = 4 -> "4" [] d = 5 -> "5" [] d = 6 -> "6" [] d = 7 -> "7"
      [] d = 8 -> "8" [] d = 9 -> "9"
TwoDigits(n) == <<DigitChar(n \div 10), DigitChar(n % 10)>>

\* canvas_clear and the visible range
DrawClear ==
    /\ draw_pc = "clear"
    /\ dots' = {}
    /\ placeholders' = {}
    /\ cursor_drawn' = FALSE
    /\ banner_drawn' = Banner(FALSE, <<>>)
    /\ tile_k' = 1
    /\ draw_pc' = "tile"
    /\ UNCHANGED <<disk, file_pos, bmp_row, success, attempts, returned>>
    /\ UNCHANGED <<annotations, loopVars, loadVars, csvVars, queueVars>>

\* the head of the row/col loops: the call of draw_tile_bmp for the next
\* tile, or the end of the loops
DrawNextTile ==
    /\ draw_pc = "tile"
    /\ IF tile_k <= Len(VisibleTiles(camera_x, camera_y))
       THEN /\ attempts' = Append(attempts, CurrentTile.tile_num)
            /\ success' = FALSE
            /\ draw_pc' = "open"
       ELSE /\ attempts' = attempts
            /\ success' = success
            /\ draw_pc' = "cursor"
    /\ UNCHANGED <<disk, tile_k, file_pos, bmp_row, dots, placeholders,
                   returned, cursor_drawn, banner_drawn>>
    /\ UNCHANGED <<annotations, loopVars, loadVars, csvVars, queueVars>>

\* a variant of AfterTile that leaves the row/col loops
AfterTileLeave(k) == [pc |-> "cursor", tile_k |-> k]

\* where the callback goes once a tile is dealt with
AfterTile(k) == [pc |-> "tile", tile_k |-> k + 1]

\* draw_tile_bmp returned: if(!draw_tile_bmp(...)) the frame and the number
DrawFallback ==
    /\ draw_pc = "return"
    /\ placeholders' =
          IF success THEN placeholders
          ELSE placeholders \cup
               {[tile |-> CurrentTile.tile_num, x |-> CurrentTile.screen_x,
                 y |-> CurrentTile.screen_y, w |-> TILE_WIDTH, h |-> TILE_HEIGHT,
                 text |-> TwoDigits(CurrentTile.tile_num)]}
    /\ returned' = Append(returned, success)
    /\ draw_pc' = AfterTile(tile_k).pc
    /\ tile_k' = AfterTile(tile_k).tile_k
    /\ UNCHANGED <<disk, file_pos, bmp_row, success, dots, attempts,
                   cursor_drawn, banner_drawn>>
    /\ UNCHANGED <<annotations, loopVars, loadVars, csvVars, queueVars>>

\* canvas_draw_circle
DrawCursor ==
    /\ draw_pc = "cursor"
    /\ cursor_drawn' = TRUE
    /\ draw_pc' = "banner"
    /\ UNCHANGED <<disk, tile_k, file_pos, bmp_row, success, dots, placeholders,
                   attempts, returned, banner_drawn>>
    /\ UNCHANGED <<annotations, loopVars, loadVars, csvVars, queueVars>>

\* if(state->has_annotation) the box, the label, the "OK"
DrawBanner ==
    /\ draw_pc = "banner"
    /\ banner_drawn' = Banner(has_annotation, current_annotation)
    /\ draw_pc' = "done"
    /\ UNCHANGED <<disk, tile_k, file_pos, bmp_row, success, dots, placeholders,
                   attempts, returned, cursor_drawn>>
    /\ UNCHANGED <<annotations, loopVars, loadVars, csvVars, queueVars>>

\* the draw callback's own variables while no callback is stepped through
DrawIdle ==
    /\ disk = 0
    /\ draw_pc = "idle"
    /\ tile_k = 0
    /\ file_pos = 0
    /\ bmp_row = 0
    /\ success = FALSE
    /\ dots = {}
    /\ placeholders = {}
    /\ attempts = <<>>
    /\ returned = <<>>
    /\ cursor_drawn = FALSE
    /\ banner_drawn = Banner(FALSE, <<>>)

(***************************************************************************)
(* Spec: the application from the first check_annotations on (the camera   *)
(* centred, annotations.csv loaded), for a few annotation files.           *)
(***************************************************************************)
FiveLine ==
    [chars |-> <<"1","2",",","6","9",",","3","2",",","F","i","v","e">>,
     rec |-> <<Rec(12, 69, 32, <<"F","i","v","e">>)>>]
EdgeLine ==
    [chars |-> <<"2","8",",","0",",","3","2",",","E","d","g","e">>,
     rec |-> <<Rec(28, 0, 32, <<"E","d","g","e">>)>>]
FirstLine ==
    [chars |-> <<"2","7",",","6","7",",","3","2",",","F","i","r","s","t">>,
     rec |-> <<Rec(27, 67, 32, <<"F","i","r","s","t">>)>>]
SecondLine ==
    [chars |-> <<"2","7",",","6","4",",","3","2",",","S","e","c","o","n","d">>,
     rec |-> <<Rec(27, 64, 32, <<"S","e","c","o","n","d">>)>>]

PolarisSource ==
    Source(TRUE, <<HeaderLine, PolarisLine, ThreeFieldLine, FiveLine, EdgeLine>>,
           LF, FALSE)
TieSource ==
    Source(TRUE, <<HeaderLine, FirstLine, SecondLine, FarLine>>, CRLF, TRUE)
\* records beside the region the cursor can reach: tile 0 at (59,32) and
\* (60,32), tile 49 at (64,37) and (64,36)
OutLeftLine ==
    [chars |-> <<"0",",","5","9",",","3","2",",","O","u","t">>,
     rec |-> <<Rec(0, 59, 32, <<"O","u","t">>)>>]
InLeftLine ==
    [chars |-> <<"0",",","6","0",",","3","2",",","I","n">>,
     rec |-> <<Rec(0, 60, 32, <<"I","n">>)>>]
OutBelowLine ==
    [chars |-> <<"4","9",",","6","4",",","3","7",",","L","o","w">>,
     rec |-> <<Rec(49, 64, 37, <<"L","o","w">>)>>]
InBelowLine ==
    [chars |-> <<"4","9",",","6","4",",","3","6",",","N","e","a","r">>,
     rec |-> <<Rec(49, 64, 36, <<"N","e","a","r">>)>>]
CornerSource ==
    Source(TRUE, <<HeaderLine, OutLeftLine, InLeftLine, OutBelowLine, InBelowLine>>,
           LF, TRUE)
MainSources == {PolarisSource, TieSource, MissingSource, CornerSource}

Init ==
    \E src \in MainSources :
      \E L \in {LoadAnnotations(src)} :
        \E hit \in {check_annotations((MAP_WIDTH - SCREEN_WIDTH) \div 2,
                                      (MAP_HEIGHT - SCREEN_HEIGHT) \div 2,
                                      L.annotations)} :
            /\ camera_x = (MAP_WIDTH - SCREEN_WIDTH) \div 2
            /\ camera_y = (MAP_HEIGHT - SCREEN_HEIGHT) \div 2
            /\ annotations = L.annotations
            /\ has_annotation = hit.has_annotation
            /\ current_annotation = hit.current_annotation
            /\ main_pc = "loop"
            /\ frame = NoFrame
            /\ event = NoEvent
            /\ running = TRUE
            /\ dequeued = 0
            /\ source = src
            /\ load_pc = L.pc
            /\ buffer = L.buffer
            /\ line = L.line
            /\ first_line = L.first_line
            /\ load_ret = L.ret
            /\ CsvIdle
            /\ QueueIdle
            /\ DrawIdle

vars == <<camera_x, camera_y, annotations, has_annotation, current_annotation,
          main_pc, frame, event, running, dequeued, source, load_pc, buffer, line, first_line, load_ret,
          disk, draw_pc, tile_k, file_pos, bmp_row, success, dots,
          placeholders, attempts, returned, cursor_drawn, banner_drawn,
          tiles, csv_line, csv_result, queue, arrived, get_log>>

Next ==
    \/ \E type \in InputTypes, key \in InputKeys : ProcessEvent(type, key)
    \/ QueueTimeout
    \/ DrawCallback

Spec == Init /\ [][Next]_vars

(***************************************************************************)
(* SpecLoad: load_annotations, one loop iteration at a time, for every     *)
(* enumerated annotation source.                                           *)
(***************************************************************************)
InitLoad ==
    \E src \in EnumeratedSources \cup SpecialSources :
        /\ camera_x = (MAP_WIDTH - SCREEN_WIDTH) \div 2
        /\ camera_y = (MAP_HEIGHT - SCREEN_HEIGHT) \div 2
        /\ annotations = <<>>
        /\ has_annotation = FALSE
        /\ current_annotation = <<>>
        /\ main_pc = "load"
        /\ frame = NoFrame
        /\ event = NoEvent
        /\ running = TRUE
        /\ dequeued = 0
        /\ source = src
        /\ load_pc = "open"
        /\ buffer = <<>>
        /\ line = 0
        /\ first_line = TRUE
        /\ load_ret = FALSE
        /\ CsvIdle
        /\ QueueIdle
        /\ DrawIdle

\* scroller_main after load_annotations has returned, whatever it returned:
\* the first check_annotations and view_port_update, then the loop
StartLoop ==
    /\ main_pc = "load"
    /\ load_pc = "done"
    /\ \E hit \in {check_annotations(camera_x, camera_y, annotations)} :
          /\ has_annotation' = hit.has_annotation
          /\ current_annotation' = hit.current_annotation
    /\ frame' = NoFrame
    /\ main_pc' = "loop"
    /\ UNCHANGED <<camera_x, camera_y, event, running, dequeued, annotations,
                   loadVars, csvVars, queueVars, drawVars>>

NextLoad ==
    \/ LoadAnnotationsStep
    \/ StartLoop

SpecLoad == InitLoad /\ [][NextLoad]_vars

(***************************************************************************)
(* SpecDraw: one execution of the draw callback, statement by statement,   *)
(* while the event loop waits: for some camera positions the event loop    *)
(* reaches, an annotation table, and each SD card.                         *)
(***************************************************************************)
DrawCameras == {<<0, 0>>, <<256, 288>>, <<256, 320>>, <<132, 68>>, <<512, 576>>}

InitDraw ==
    \E src \in {PolarisSource}, cam \in DrawCameras, d \in Disks :
      \E L \in {LoadAnnotations(src)} :
        \E hit \in {check_annotations(cam[1], cam[2], L.annotations)} :
            /\ camera_x = cam[1]
            /\ camera_y = cam[2]
            /\ annotations = L.annotations
            /\ has_annotation = hit.has_annotation
            /\ current_annotation = hit.current_annotation
            /\ main_pc = "loop"
            /\ frame = NoFrame
            /\ event = NoEvent
            /\ running = TRUE
            /\ dequeued = 0
            /\ source = src
            /\ load_pc = L.pc
            /\ buffer = L.buffer
            /\ line = L.line
            /\ first_line = L.first_line
            /\ load_ret = L.ret
            /\ CsvIdle
            /\ QueueIdle
            /\ disk = d
            /\ draw_pc = "clear"
            /\ tile_k = 0
            /\ file_pos = 0
            /\ bmp_row = 0
            /\ success = FALSE
            /\ dots = {}
            /\ placeholders = {}
            /\ attempts = <<>>
            /\ returned = <<>>
            /\ cursor_drawn = FALSE
            /\ banner_drawn = Banner(FALSE, <<>>)

NextDraw ==
    \/ DrawClear
    \/ DrawNextTile
    \/ BmpOpen
    \/ BmpHeader
    \/ BmpRow
    \/ DrawFallback
    \/ DrawCursor
    \/ DrawBanner

SpecDraw == InitDraw /\ [][NextDraw]_vars

(***************************************************************************)
(* SpecHit: one call of check_annotations, for a table with one record at  *)
(* the origin of every tile and for cameras that put the cursor on the     *)
(* origin of each tile of the grid and of the two rings of tile positions  *)
(* around the grid.                                                        *)
(***************************************************************************)
\* the line "tt,0,0,tt" for tile t, tt its two-digit number
GridLine(t) ==
    [chars |-> TwoDigits(t) \o <<",", "0", ",", "0", ",">> \o TwoDigits(t),
     rec |-> <<Rec(t, 0, 0, TwoDigits(t))>>]
GridSource ==
    Source(TRUE, <<HeaderLine>> \o [i \in 1..TOTAL_TILES |-> GridLine(i - 1)],
           LF, TRUE)

\* tile positions: the grid and two more on every side
HitCols == (0 - 2)..(TILE_COLS + 1)
HitRows == (0 - 2)..(TILE_ROWS + 1)
\* the camera that puts the cursor on the origin of the tile position (r, c)
CameraOverOrigin(r, c) ==
    <<c * TILE_WIDTH - CDiv(SCREEN_WIDTH, 2), r * TILE_HEIGHT - CDiv(SCREEN_HEIGHT, 2)>>

InitHit ==
    \E r \in HitRows, c \in HitCols :
      \E L \in {LoadAnnotations(GridSource)} :
        /\ camera_x = CameraOverOrigin(r, c)[1]
        /\ camera_y = CameraOverOrigin(r, c)[2]
        /\ annotations = L.annotations
        /\ has_annotation = FALSE
        /\ current_annotation = <<>>
        /\ main_pc = "call"
        /\ frame = NoFrame
        /\ event = NoEvent
        /\ running = TRUE
        /\ dequeued = 0
        /\ source = GridSource
        /\ load_pc = L.pc
        /\ buffer = L.buffer
        /\ line = L.line
        /\ first_line = L.first_line
        /\ load_ret = L.ret
        /\ CsvIdle
        /\ QueueIdle
        /\ DrawIdle

\* check_annotations(state)
HitTest ==
    /\ main_pc = "call"
    /\ \E hit \in {check_annotations(camera_x, camera_y, annotations)} :
          /\ has_annotation' = hit.has_annotation
          /\ current_annotation' = hit.current_annotation
    /\ main_pc' = "called"
    /\ UNCHANGED <<camera_x, camera_y, frame, event, running, dequeued,
                   annotations, loadVars, csvVars, queueVars, drawVars>>

NextHit == HitTest

SpecHit == InitHit /\ [][NextHit]_vars

(***************************************************************************)
(* SpecLoop: the event loop statement by statement, with the draw callback *)
(* run by the GUI thread between any two statements.  scroller_main and    *)
(* the callback share ScrollerState without a lock.                        *)
(***************************************************************************)
\* the number of events taken from the queue in one behaviour
MaxDequeued == 2

\* a variant of ShiftCamera in which the OK key moves the camera too
ShiftCameraOkMoves(key, cx, cy) ==
    CASE key = "Up" -> <<cx, cy - move_speed>>
      [] key = "Down" -> <<cx, cy + move_speed>>
      [] key = "Left" -> <<cx - move_speed, cy>>
      [] key = "Right" -> <<cx + move_speed, cy>>
      [] key = "Ok" -> <<cx, cy + move_speed>>
      [] OTHER -> <<cx, cy>>

\* the first statement of a case of the switch: camera -= / += move_speed
ShiftCamera(key, cx, cy) ==
    CASE key = "Up" -> <<cx, cy - move_speed>>
      [] key = "Down" -> <<cx, cy + move_speed>>
      [] key = "Left" -> <<cx - move_speed, cy>>
      [] key = "Right" -> <<cx + move_speed, cy>>
      [] OTHER -> <<cx, cy>>

\* a variant of ClampCamera that clamps at the low end only
ClampCameraLowOnly(key, cx, cy) ==
    CASE key = "Up" -> <<cx, ClampLow(cy)>>
      [] key = "Left" -> <<ClampLow(cx), cy>>
      [] OTHER -> <<cx, cy>>

\* the second statement of a case of the switch: the if that clamps
ClampCamera(key, cx, cy) ==
    CASE key = "Up" -> <<cx, ClampLow(cy)>>
      [] key = "Down" -> <<cx, ClampHigh(cy, MAP_HEIGHT - SCREEN_HEIGHT)>>
      [] key = "Left" -> <<ClampLow(cx), cy>>
      [] key = "Right" -> <<ClampHigh(cx, MAP_WIDTH - SCREEN_WIDTH), cy>>
      [] OTHER -> <<cx, cy>>

\* a variant of RunningAfter in which the OK key ends the loop too
RunningAfterOkExits(key, run) == IF key \in {"Back", "Ok"} THEN FALSE ELSE run

\* case InputKeyBack: running = false; no other case assigns running
RunningAfter(key, run) == IF key = "Back" THEN FALSE ELSE run

\* camera positions the event loop reaches: the start, the Polaris record
\* under the cursor, and the two corners of the clamp range
LoopCameras == {<<256, 288>>, <<256, 320>>, <<0, 0>>, <<512, 576>>}

InitLoop ==
    \E src \in {PolarisSource, MissingSource}, cam \in LoopCameras :
      \E L \in {LoadAnnotations(src)} :
        \E hit \in {check_annotations(cam[1], cam[2], L.annotations)} :
            /\ camera_x = cam[1]
            /\ camera_y = cam[2]
            /\ annotations = L.annotations
            /\ has_annotation = hit.has_annotation
            /\ current_annotation = hit.current_annotation
            /\ main_pc = "loop"
            /\ frame = NoFrame
            /\ event = NoEvent
            /\ running = TRUE
            /\ dequeued = 0
            /\ source = src
            /\ load_pc = L.pc
            /\ buffer = L.buffer
            /\ line = L.line
            /\ first_line = L.first_line
            /\ load_ret = L.ret
            /\ CsvIdle
            /\ QueueIdle
            /\ DrawIdle

\* furi_message_queue_get(..., &event, 100) == FuriStatusOk
GetEvent(type, key) ==
    /\ main_pc = "loop"
    /\ dequeued < MaxDequeued
    /\ event' = [type |-> type, key |-> key]
    /\ dequeued' = dequeued + 1
    /\ main_pc' = "got"
    /\ UNCHANGED <<camera_x, camera_y, has_annotation, current_annotation,
                   frame, running, annotations, loadVars, csvVars, queueVars, drawVars>>

\* if(event.type == InputTypePress || event.type == InputTypeRepeat)
TypeTest ==
    /\ main_pc = "got"
    /\ main_pc' = IF event.type \in {"Press", "Repeat"} THEN "switch" ELSE "while"
    /\ UNCHANGED <<camera_x, camera_y, has_annotation, current_annotation,
                   frame, event, running, dequeued, annotations, loadVars, csvVars, queueVars,
                   drawVars>>

\* switch(event.key): the assignment of the case
SwitchKey ==
    /\ main_pc = "switch"
    /\ camera_x' = ShiftCamera(event.key, camera_x, camera_y)[1]
    /\ camera_y' = ShiftCamera(event.key, camera_x, camera_y)[2]
    /\ running' = RunningAfter(event.key, running)
    /\ main_pc' = "clamp"
    /\ UNCHANGED <<has_annotation, current_annotation, frame, event, dequeued,
                   annotations, loadVars, csvVars, queueVars, drawVars>>

\* switch(event.key): the if of the case, then break
ClampKey ==
    /\ main_pc = "clamp"
    /\ camera_x' = ClampCamera(event.key, camera_x, camera_y)[1]
    /\ camera_y' = ClampCamera(event.key, camera_x, camera_y)[2]
    /\ main_pc' = "check"
    /\ UNCHANGED <<has_annotation, current_annotation, frame, event, running,
                   dequeued, annotations, loadVars, csvVars, queueVars, drawVars>>

\* check_annotations: has_annotation = false; current_annotation[0] = 0
CheckReset ==
    /\ main_pc = "check"
    /\ has_annotation' = FALSE
    /\ current_annotation' = <<>>
    /\ main_pc' = "scan"
    /\ UNCHANGED <<camera_x, camera_y, frame, event, running, dequeued,
                   annotations, loadVars, csvVars, queueVars, drawVars>>

\* check_annotations: the rest of the function
CheckScan ==
    /\ main_pc = "scan"
    /\ \E hit \in {check_annotations(camera_x, camera_y, annotations)} :
          /\ has_annotation' = hit.has_annotation
          /\ current_annotation' = hit.current_annotation
    /\ main_pc' = "update"
    /\ UNCHANGED <<camera_x, camera_y, frame, event, running, dequeued,
                   annotations, loadVars, csvVars, queueVars, drawVars>>

\* view_port_update(state->view_port)
ViewPortUpdate ==
    /\ main_pc = "update"
    /\ frame' = NoFrame
    /\ main_pc' = "while"
    /\ UNCHANGED <<camera_x, camera_y, has_annotation, current_annotation,
                   event, running, dequeued, annotations, loadVars, csvVars, queueVars, drawVars>>

\* while(running)
WhileTest ==
    /\ main_pc = "while"
    /\ main_pc' = IF running THEN "loop" ELSE "exit"
    /\ UNCHANGED <<camera_x, camera_y, has_annotation, current_annotation,
                   frame, event, running, dequeued, annotations, loadVars, csvVars, queueVars,
                   drawVars>>

\* the GUI thread runs the draw callback for a pending update while
\* scroller_main is between two statements of an iteration
DrawDuringEvent ==
    /\ main_pc \in {"got", "switch", "clamp", "check", "scan", "update", "while"}
    /\ frame = NoFrame
    /\ frame' = [drawn |-> TRUE,
                 tiles |-> VisibleTiles(camera_x, camera_y),
                 cursor |-> <<CDiv(SCREEN_WIDTH, 2), CDiv(SCREEN_HEIGHT, 2), CURSOR_RADIUS>>,
                 banner |-> Banner(has_annotation, current_annotation)]
    /\ UNCHANGED <<camera_x, camera_y, has_annotation, current_annotation,
                   main_pc, event, running, dequeued, annotations, loadVars, csvVars, queueVars,
                   drawVars>>

NextLoop ==
    \/ \E type \in InputTypes, key \in InputKeys : GetEvent(type, key)
    \/ QueueTimeout
    \/ TypeTest
    \/ SwitchKey
    \/ ClampKey
    \/ CheckReset
    \/ CheckScan
    \/ ViewPortUpdate
    \/ WhileTest
    \/ DrawCallback
    \/ DrawDuringEvent

SpecLoop == InitLoop /\ [][NextLoop]_vars

\* the thread of scroller_main is scheduled again and again: once an event
\* is taken from the queue, the statements of the iteration are executed
MainThreadStep ==
    \/ TypeTest
    \/ SwitchKey
    \/ ClampKey
    \/ CheckReset
    \/ CheckScan
    \/ ViewPortUpdate
    \/ WhileTest
SpecLoopFair == SpecLoop /\ WF_vars(MainThreadStep)

(***************************************************************************)
(* scroller.c, the variant that reads the tile arrangement from tiles.csv  *)
(* and names the tile of an annotation by its file name.                   *)
(* parse_csv_line: the line is a sequence of characters, its end the NUL;  *)
(* fields is the caller's char fields[10][MAX_LINE_LENGTH].  The result    *)
(* holds the rows written inside the array (fields), every write as        *)
(* <<row, index>> (written), and the count returned.                       *)
(***************************************************************************)
MAX_LINE_LENGTH == 256
MAX_TILES == 25
\* the number of rows of the fields array of both callers, and the
\* max_fields they pass
FIELD_ROWS == 10

\* line[pos], C indexing from 0; "NUL" at the end of the string
CharAt(ln, pos) == IF pos + 1 > Len(ln) THEN "NUL" ELSE ln[pos + 1]

ParseStart ==
    [pos |-> 0, field_count |-> 0, field_pos |-> 0, in_quotes |-> FALSE,
     fields |-> [k \in 0..(FIELD_ROWS - 1) |-> <<>>], cur |-> <<>>,
     written |-> {}, field_count_ret |-> 0]

\* fields[field_count][field_pos] = '\0'; field_count++; field_pos = 0
EndField(st) ==
    [st EXCEPT !.written = @ \cup {<<st.field_count, st.field_pos>>},
               !.fields = IF st.field_count \in DOMAIN @
                          THEN [@ EXCEPT ![st.field_count] = st.cur] ELSE @,
               !.cur = <<>>,
               !.field_count = @ + 1,
               !.field_pos = 0]

\* if(field_pos > 0 || (pos > 0 && line[pos-1] == ',')) after the loop
LastField(ln, max_fields, st) ==
    IF st.field_pos > 0 \/ (st.pos > 0 /\ CharAt(ln, st.pos - 1) = ",")
    THEN EndField(st)
    ELSE st

\* the character is copied to the field by the else branch of the loop
Regular(c, in_quotes) ==
    /\ c \notin {"NUL", "\n", "\r", "\""}
    /\ ~(c = "," /\ ~in_quotes)
\* the number of regular characters from pos on, at most room
RegularRun(ln, pos, in_quotes, room) ==
    LET stop == CHOOSE p \in pos..Len(ln) :
                    /\ ~Regular(CharAt(ln, p), in_quotes)
                    /\ \A q \in pos..(p - 1) : Regular(CharAt(ln, q), in_quotes)
    IN  Min(stop - pos, room)

RECURSIVE ParseLoop(_, _, _)
\* the while loop, from its test on
ParseLoop(ln, max_fields, st) ==
    LET c == CharAt(ln, st.pos)
    IN  IF c \in {"NUL", "\n", "\r"} \/ ~(st.field_count < max_fields)
        THEN st
        ELSE IF c = "\""
        THEN ParseLoop(ln, max_fields,
                       [st EXCEPT !.in_quotes = ~@, !.pos = @ + 1])
        ELSE IF c = "," /\ ~st.in_quotes
        THEN ParseLoop(ln, max_fields, [EndField(st) EXCEPT !.pos = @ + 1])
        ELSE \* the iterations of the else branch up to the next character
             \* that is not a regular one, or to the safety check
             LET n == RegularRun(ln, st.pos, st.in_quotes,
                                 MAX_LINE_LENGTH - 1 - st.field_pos)
                 put == [st EXCEPT
                           !.written = @ \cup {<<st.field_count, st.field_pos + k>> :
                                                   k \in 0..(n - 1)},
                           !.cur = @ \o SubSeq(ln, st.pos + 1, st.pos + n),
                           !.field_pos = @ + n,
                           !.pos = @ + n]
             IN  IF put.field_pos >= MAX_LINE_LENGTH - 1
                 THEN EndField(put)                  \* break
                 ELSE ParseLoop(ln, max_fields, put)

\* parse_csv_line(line, fields, max_fields)
parse_csv_line(ln, max_fields) ==
    LET st == LastField(ln, max_fields, ParseLoop(ln, max_fields, ParseStart))
    IN  [field_count |-> st.field_count, fields |-> st.fields,
         written |-> st.written]

(***************************************************************************)
(* SpecCsv: one call of parse_csv_line with max_fields = 10, as both       *)
(* loaders call it, for lines of up to MaxCommas separators.               *)
(***************************************************************************)
MaxCommas == 12

RECURSIVE Repeat(_, _)
Repeat(u, n) == IF n = 0 THEN <<>> ELSE u \o Repeat(u, n - 1)

\* n fields "a," or n empty fields ",", a last field (none, plain, or
\* quoted with a comma inside), and the end of the line
CsvLines ==
    {Repeat(u, n) \o tail \o eol :
        u \in {<<"a", ",">>, <<",">>},
        n \in 0..MaxCommas,
        tail \in {<<>>, <<"b">>, <<"\"", "c", ",", "d", "\"">>},
        eol \in {<<>>, <<"\n">>, <<"\r", "\n">>}}
    \cup {[i \in 1..(MAX_LINE_LENGTH - 1) |-> "a"],
          [i \in 1..(MAX_LINE_LENGTH - 1) |-> IF i = 1 THEN "\"" ELSE ","]}

InitCsv ==
    \E ln \in CsvLines :
        /\ camera_x = (MAP_WIDTH - SCREEN_WIDTH) \div 2
        /\ camera_y = (MAP_HEIGHT - SCREEN_HEIGHT) \div 2
        /\ annotations = <<>>
        /\ has_annotation = FALSE
        /\ current_annotation = <<>>
        /\ main_pc = "call"
        /\ frame = NoFrame
        /\ event = NoEvent
        /\ running = TRUE
        /\ dequeued = 0
        /\ source = MissingSource
        /\ load_pc = "open"
        /\ buffer = <<>>
        /\ line = 0
        /\ first_line = TRUE
        /\ load_ret = FALSE
        /\ DrawIdle
        /\ tiles = <<>>
        /\ csv_line = ln
        /\ csv_result = NoResult
        /\ QueueIdle

\* int field_count = parse_csv_line(line, fields, 10);
ParseCsvLine ==
    /\ main_pc = "call"
    /\ \E r \in {parse_csv_line(csv_line, FIELD_ROWS)} :
          csv_result' = [field_count |-> r.field_count, written |-> r.written]
    /\ main_pc' = "called"
    /\ UNCHANGED <<camera_x, camera_y, has_annotation, current_annotation,
                   frame, event, running, dequeued, annotations, loadVars,
                   drawVars, tiles, csv_line, queueVars>>

NextCsv == ParseCsvLine

SpecCsv == InitCsv /\ [][NextCsv]_vars

(***************************************************************************)
(* scroller.c: load_tile_map, load_annotations and check_annotations of    *)
(* the variant.  A CSV file is whether it opens and its lines, as          *)
(* stream_read_line hands them out one by one.                             *)
(***************************************************************************)
RECURSIVE AtoiDigits(_, _, _)
AtoiDigits(s, i, acc) ==
    IF i > Len(s) \/ s[i] \notin {"0","1","2","3","4","5","6","7","8","9"}
    THEN acc
    ELSE AtoiDigits(s, i + 1,
                    10 * acc + (CHOOSE d \in 0..9 : DigitChar(d) = s[i]))
\* atoi: an optional sign, then the leading digits; 0 when there are none
atoi(s) ==
    IF s # <<>> /\ s[1] = "-" THEN 0 - AtoiDigits(s, 2, 0)
    ELSE AtoiDigits(s, 1, 0)

RECURSIVE LoadTileLines(_, _, _)
\* the while loop of load_tile_map from line i of the file on
LoadTileLines(lines, i, tls) ==
    IF ~(i <= Len(lines) /\ Len(tls) < MAX_TILES) THEN tls
    ELSE LET p == parse_csv_line(lines[i], FIELD_ROWS)
         IN  LoadTileLines(lines, i + 1,
                IF p.field_count >= 3
                THEN Append(tls, [row |-> atoi(p.fields[0]),
                                  col |-> atoi(p.fields[1]),
                                  filename |-> Strncpy(p.fields[2], 31)])
                ELSE tls)

\* load_tile_map: the table it leaves in state->tiles; the first line is
\* read and dropped
load_tile_map(file) ==
    IF ~file.openable THEN <<>> ELSE LoadTileLines(file.lines, 2, <<>>)

RECURSIVE LoadNamedLines(_, _, _)
\* the while loop of load_annotations from line i of the file on
LoadNamedLines(lines, i, anns) ==
    IF ~(i <= Len(lines) /\ Len(anns) < MAX_ANNOTATIONS) THEN anns
    ELSE LET p == parse_csv_line(lines[i], FIELD_ROWS)
         IN  LoadNamedLines(lines, i + 1,
                IF p.field_count >= 4
                THEN Append(anns, [tile_name |-> Strncpy(p.fields[0], 31),
                                   x |-> atoi(p.fields[1]),
                                   y |-> atoi(p.fields[2]),
                                   text |-> Strncpy(p.fields[3],
                                                    MAX_ANNOTATION_LENGTH - 1)])
                ELSE anns)

\* load_annotations of the variant: the table it leaves
load_annotations_by_name(file) ==
    IF ~file.openable THEN <<>> ELSE LoadNamedLines(file.lines, 2, <<>>)

\* the for loop over the annotations: the first one of the tile's file name
\* within the radius
ScanNamed(anns, i, filename, tile_local_x, tile_local_y) ==
    LET hits == {j \in i..Len(anns) :
                    /\ anns[j].tile_name = filename
                    /\ WithinRadius(tile_local_x - anns[j].x,
                                    tile_local_y - anns[j].y)}
    IN  IF hits = {} THEN [has_annotation |-> FALSE, current_annotation |-> <<>>]
        ELSE [has_annotation |-> TRUE,
              current_annotation |->
                  Strncpy(anns[CHOOSE j \in hits : \A h \in hits : j <= h].text,
                          MAX_ANNOTATION_LENGTH - 1)]

\* check_annotations of the variant
check_annotations_by_name(cx, cy, tls, anns) ==
    LET cursor_world_x == cx + CDiv(SCREEN_WIDTH, 2)
        cursor_world_y == cy + CDiv(SCREEN_HEIGHT, 2)
        cursor_tile_col == CDiv(cursor_world_x, TILE_WIDTH)
        cursor_tile_row == CDiv(cursor_world_y, TILE_HEIGHT)
        found == {i \in 1..Len(tls) : tls[i].row = cursor_tile_row
                                      /\ tls[i].col = cursor_tile_col}
    IN  IF found = {}
        THEN [has_annotation |-> FALSE, current_annotation |-> <<>>]
        ELSE ScanNamed(anns, 1,
                       tls[CHOOSE i \in found : \A j \in found : i <= j].filename,
                       CMod(cursor_world_x, TILE_WIDTH),
                       CMod(cursor_world_y, TILE_HEIGHT))

(***************************************************************************)
(* SpecMap: the start of the variant (both loads, the first                *)
(* check_annotations) for a tiles.csv that lists the 50 tiles, an          *)
(* annotations.csv with one record in the middle of every tile, and the    *)
(* camera that puts the cursor on, or 4 pixels beside, one of the records. *)
(***************************************************************************)
\* "tile_r_c.png"
TileName(r, c) ==
    <<"t","i","l","e","_", DigitChar(r), "_", DigitChar(c), ".","p","n","g">>
\* the k-th tile (from 0) of the listing, row by row or column by column
TileOrder(byRows, k) ==
    IF byRows THEN <<k \div TILE_COLS, k % TILE_COLS>>
    ELSE <<k % TILE_ROWS, k \div TILE_ROWS>>
TilesCsv(byRows) ==
    [openable |-> TRUE,
     lines |-> <<<<"r","o","w",",","c","o","l",",","f","i","l","e","n","a","m","e","\n">>>>
               \o [k \in 1..TOTAL_TILES |->
                      LET rc == TileOrder(byRows, k - 1)
                      IN  <<DigitChar(rc[1]), ",", DigitChar(rc[2]), ",">>
                          \o TileName(rc[1], rc[2]) \o <<"\n">>]]
AnnotationsCsv ==
    [openable |-> TRUE,
     lines |-> <<<<"t","i","l","e","_","n","a","m","e",",","x",",","y",",",
                   "a","n","n","o","t","a","t","i","o","n","\n">>>>
               \o [k \in 1..TOTAL_TILES |->
                      TileName((k - 1) \div TILE_COLS, (k - 1) % TILE_COLS)
                      \o <<",","6","4",",","3","2",",">> \o TwoDigits(k - 1)
                      \o <<"\n">>]]

InitMap ==
    \E byRows \in BOOLEAN, r \in 0..(TILE_ROWS - 1), c \in 0..(TILE_COLS - 1),
       off \in {0, CURSOR_RADIUS} :
        /\ camera_x = c * TILE_WIDTH
        /\ camera_y = IF r = TILE_ROWS - 1 THEN r * TILE_HEIGHT - off
                      ELSE r * TILE_HEIGHT + off
        /\ annotations = <<>>
        /\ has_annotation = FALSE
        /\ current_annotation = <<>>
        /\ main_pc = "load_tile_map"
        /\ frame = NoFrame
        /\ event = NoEvent
        /\ running = TRUE
        /\ dequeued = 0
        /\ source = [tiles_csv |-> TilesCsv(byRows), annotations_csv |-> AnnotationsCsv]
        /\ load_pc = "open"
        /\ buffer = <<>>
        /\ line = 0
        /\ first_line = TRUE
        /\ load_ret = FALSE
        /\ DrawIdle
        /\ CsvIdle
        /\ QueueIdle

\* if(!load_tile_map(state, storage)) log: the application continues
LoadTileMap ==
    /\ main_pc = "load_tile_map"
    /\ tiles' = load_tile_map(source.tiles_csv)
    /\ main_pc' = "load_annotations"
    /\ UNCHANGED <<camera_x, camera_y, has_annotation, current_annotation,
                   frame, event, running, dequeued, annotations, loadVars,
                   drawVars, csv_line, csv_result, queueVars>>

\* if(!load_annotations(state, storage)) log: the application continues
LoadNamedAnnotations ==
    /\ main_pc = "load_annotations"
    /\ annotations' = load_annotations_by_name(source.annotations_csv)
    /\ main_pc' = "check"
    /\ UNCHANGED <<camera_x, camera_y, has_annotation, current_annotation,
                   frame, event, running, dequeued, loadVars, drawVars, csvVars,
                   queueVars>>

\* check_annotations(state) before the loop, and after every event
CheckNamed ==
    /\ main_pc = "check"
    /\ \E hit \in {check_annotations_by_name(camera_x, camera_y, tiles, annotations)} :
          /\ has_annotation' = hit.has_annotation
          /\ current_annotation' = hit.current_annotation
    /\ main_pc' = "loop"
    /\ UNCHANGED <<camera_x, camera_y, frame, event, running, dequeued,
                   annotations, loadVars, drawVars, csvVars, queueVars>>

NextMap ==
    \/ LoadTileMap
    \/ LoadNamedAnnotations
    \/ CheckNamed

SpecMap == InitMap /\ [][NextMap]_vars

(***************************************************************************)
(* SpecQueue: the input queue between scroller_input_callback (run by the  *)
(* platform for every input event) and the event loop.  The queue is the   *)
(* one allocated with furi_message_queue_alloc(8, ...): first in, first    *)
(* out, a put with FuriWaitForever waits while it is full.  An iteration   *)
(* of the loop is one step.                                                *)
(***************************************************************************)
QUEUE_SIZE == 8
\* the number of input events in one behaviour
MaxArrived == 9

\* the keys and types of this specification
QueueKeys == {"Down", "Back"}
QueueTypes == {"Press", "Repeat", "Release"}
\* the key is held: the last event of the key is not its release
Held(log, key) ==
    \E i \in 1..Len(log) :
        /\ log[i].key = key
        /\ log[i].type # "Release"
        /\ \A j \in (i + 1)..Len(log) : log[j].key # key
\* the input service sends a press for a key that is up, and a repeat or a
\* release for a key that is held
Producible(log, type, key) == (type = "Press") <=> ~Held(log, key)

\* the events put in the queue or got from it so far
Delivered == Len(get_log) + Len(queue)

\* a variant of QueueHasRoom without a limit
QueueHasRoomAlways(q) == TRUE

\* furi_message_queue_put does not wait: fewer than 8 events are queued
QueueHasRoom(q) == Len(q) < QUEUE_SIZE

InitQueue ==
    \E src \in {PolarisSource} :
      \E L \in {LoadAnnotations(src)} :
        \E hit \in {check_annotations((MAP_WIDTH - SCREEN_WIDTH) \div 2,
                                      (MAP_HEIGHT - SCREEN_HEIGHT) \div 2,
                                      L.annotations)} :
            /\ camera_x = (MAP_WIDTH - SCREEN_WIDTH) \div 2
            /\ camera_y = (MAP_HEIGHT - SCREEN_HEIGHT) \div 2
            /\ annotations = L.annotations
            /\ has_annotation = hit.has_annotation
            /\ current_annotation = hit.current_annotation
            /\ main_pc = "loop"
            /\ frame = NoFrame
            /\ event = NoEvent
            /\ running = TRUE
            /\ dequeued = 0
            /\ source = src
            /\ load_pc = L.pc
            /\ buffer = L.buffer
            /\ line = L.line
            /\ first_line = L.first_line
            /\ load_ret = L.ret
            /\ DrawIdle
            /\ CsvIdle
            /\ QueueIdle

\* the platform calls scroller_input_callback with an input event
InputArrives(type, key) ==
    /\ main_pc # "exit"
    /\ Len(arrived) < MaxArrived
    /\ Len(arrived) = Delivered                \* the last call has returned
    /\ Producible(arrived, type, key)
    /\ arrived' = Append(arrived, [type |-> type, key |-> key])
    /\ UNCHANGED <<queue, get_log, annotations, loopVars, loadVars, drawVars,
                   csvVars>>

\* furi_message_queue_put(event_queue, input_event, FuriWaitForever) returns
QueuePut ==
    /\ main_pc # "exit"
    /\ Len(arrived) > Delivered
    /\ QueueHasRoom(queue)
    /\ queue' = Append(queue, arrived[Delivered + 1])
    /\ UNCHANGED <<arrived, get_log, annotations, loopVars, loadVars, drawVars,
                   csvVars>>

\* furi_message_queue_get returned FuriStatusOk: one iteration of the loop
\* with the oldest event
DequeueEvent ==
    /\ main_pc = "loop"
    /\ queue # <<>>
    /\ event' = Head(queue)
    /\ queue' = Tail(queue)
    /\ get_log' = Append(get_log, Head(queue))
    /\ dequeued' = dequeued + 1
    /\ IF Head(queue).type \in {"Press", "Repeat"}
       THEN \E cam \in {MoveCamera(Head(queue).key, camera_x, camera_y)} :
              \E hit \in {Recheck(cam[1], cam[2], annotations)} :
                /\ camera_x' = cam[1]
                /\ camera_y' = cam[2]
                /\ has_annotation' = hit.has_annotation
                /\ current_annotation' = hit.current_annotation
                /\ frame' = NoFrame
                /\ running' = (Head(queue).key # "Back")
                /\ main_pc' = IF Head(queue).key = "Back" THEN "exit" ELSE "loop"
       ELSE UNCHANGED <<camera_x, camera_y, has_annotation, current_annotation,
                        frame, running, main_pc>>
    /\ UNCHANGED <<arrived, annotations, loadVars, drawVars, csvVars>>

\* furi_message_queue_get timed out: the queue was empty for 100 ms
QueueEmptyTimeout ==
    /\ queue = <<>>
    /\ QueueTimeout

NextQueue ==
    \/ \E type \in QueueTypes, key \in QueueKeys : InputArrives(type, key)
    \/ QueuePut
    \/ DequeueEvent
    \/ QueueEmptyTimeout

SpecQueue == InitQueue /\ [][NextQueue]_vars
\* the event loop and the thread of the callback are scheduled again and
\* again
SpecQueueFair == SpecQueue /\ WF_vars(DequeueEvent) /\ WF_vars(QueuePut)

(***************************************************************************)
(* Properties.  They are stated from the documented behaviour, with the    *)
(* numbers of the documentation (a 640 x 640 map, a 128 x 64 screen and    *)
(* tile, 5 columns, radius 4) and without the operators of the model.      *)
(***************************************************************************)
\* the cursor: the camera plus half the screen extent
CursorWorldX == camera_x + 64
CursorWorldY == camera_y + 32
\* the indices of the loaded records on the cursor's tile and within the
\* radius of the cursor
RecordsUnderCursor ==
    {i \in 1..Len(annotations) :
        /\ annotations[i].tile_number
             = (CursorWorldY \div 64) * 5 + (CursorWorldX \div 128)
        /\ ((CursorWorldX % 128) - annotations[i].x)
             * ((CursorWorldX % 128) - annotations[i].x)
           + ((CursorWorldY % 64) - annotations[i].y)
             * ((CursorWorldY % 64) - annotations[i].y) <= 16}
PolarisRecord == Rec(27, 64, 32, <<"P","o","l","a","r","i","s">>)

\* C1: from the centred start and after any sequence of input events, the
\* camera satisfies 0 <= camera_x <= 512 and 0 <= camera_y <= 576 whenever
\* the event loop has finished processing an event.
CameraClampInvariant ==
    /\ camera_x \in 0..(640 - 128)
    /\ camera_y \in 0..(640 - 64)

\* the camera in the bottom-right corner of its range, the frame redrawn
CameraAtCorner ==
    /\ camera_x = 512
    /\ camera_y = 576
    /\ main_pc = "loop"
    /\ frame.drawn

\* C2: a label is reported if and only if some loaded record has the tile
\* index of the cursor (camera + (64, 32), divided by 128 and 64) and a
\* squared distance of at most 16 from the cursor's position in the tile, and
\* the label is that of such a record; the record at tile 27 (64, 32) is
\* reported with the cursor on it and is not after a move by (+5, 0).
HitTestIff ==
    /\ has_annotation <=> RecordsUnderCursor # {}
    /\ has_annotation =>
          \E i \in RecordsUnderCursor : current_annotation = annotations[i].text
    /\ check_annotations(256, 320, <<PolarisRecord>>)
          = [has_annotation |-> TRUE, current_annotation |-> PolarisRecord.text]
    /\ ~check_annotations(256 + 5, 320, <<PolarisRecord>>).has_annotation

\* the cursor on the record of tile 27 at (64, 32), which is reported
PolarisReported ==
    /\ camera_x = 256
    /\ camera_y = 320
    /\ \E i \in 1..Len(annotations) : annotations[i] = PolarisRecord
    /\ has_annotation
    /\ current_annotation = PolarisRecord.text

TieBreakByLoadOrder ==
    Cardinality(RecordsUnderCursor) >= 2 =>
        /\ has_annotation
        /\ current_annotation
             = annotations[CHOOSE i \in RecordsUnderCursor :
                               \A j \in RecordsUnderCursor : i <= j].text

\* the cursor exactly on the second record and three pixels from the first:
\* the first is reported
FirstOfTwoReported ==
    /\ Cardinality(RecordsUnderCursor) = 2
    /\ CursorWorldX % 128 = 64
    /\ CursorWorldY % 64 = 32
    /\ \E i \in RecordsUnderCursor :
          /\ annotations[i].x = 64
          /\ annotations[i].y = 32
          /\ annotations[i].text # current_annotation
    /\ current_annotation = <<"F","i","r","s","t">>

\* The tile file the decoder is at, read byte by byte.
\* the header passes every check of the format
WellFormedHeader(f) ==
    /\ f.exists
    /\ Len(f.bytes) >= 54
    /\ f.bytes[1] = 66 /\ f.bytes[2] = 77
    /\ SubSeq(f.bytes, 19, 22) = <<128, 0, 0, 0>>
    /\ SubSeq(f.bytes, 23, 26) = <<64, 0, 0, 0>>
    /\ SubSeq(f.bytes, 29, 30) = <<1, 0>>
\* the pixel-data offset of a file whose offset is below 65536
PixelDataOffset(f) == f.bytes[11] + 256 * f.bytes[12]
SmallOffset(f) == f.bytes[13] = 0 /\ f.bytes[14] = 0
\* all 64 strides of 16 bytes are in the file
AllStridesPresent(f) ==
    SmallOffset(f) /\ Len(f.bytes) >= PixelDataOffset(f) + 64 * 16
\* the dots drawn so far for the tile the decoder is at
DotsOfCurrentTile == {d \in dots : d[1] = CurrentTile.tile_num}

\* C5: draw_tile_bmp reports failure and draws no pixel when the file cannot
\* be opened, has fewer than 54 bytes, does not start with 'B','M', or has a
\* width other than 128, a height other than 64 or a depth other than 1; it
\* starts decoding pixels only when all of these checks pass.
HeaderRejection ==
    /\ (draw_pc = "return" /\ ~WellFormedHeader(CurrentFile)) =>
          ~success /\ DotsOfCurrentTile = {}
    /\ draw_pc = "rows" => WellFormedHeader(CurrentFile)

\* draw_tile_bmp has returned for a file whose only fault is its bit depth
WrongDepthRejected ==
    /\ draw_pc = "return"
    /\ CurrentFile = WrongDepthFile
    /\ ~success
    /\ DotsOfCurrentTile = {}

\* C6: when a row stride cannot be read in full (the pixel data is cut short
\* or the pixel-data offset is at or past the end of the file), the decoder
\* reports failure for the tile.
TruncatedRowsFail ==
    (/\ draw_pc = "return"
     /\ WellFormedHeader(CurrentFile)
     /\ ~AllStridesPresent(CurrentFile)) => ~success

\* C7: for a well-formed tile drawn at (x, y), the k-th stride of 16 bytes
\* from the pixel-data offset is display row 63 - k, pixel column c is bit
\* 7 - (c mod 8) of byte c div 8, and the dots drawn are exactly the 1-bits.
PixelMapping ==
    (/\ draw_pc = "return"
     /\ WellFormedHeader(CurrentFile)
     /\ AllStridesPresent(CurrentFile)) =>
        /\ success
        /\ DotsOfCurrentTile =
              {<<CurrentTile.tile_num, CurrentTile.screen_x + kc[2],
                 CurrentTile.screen_y + (63 - kc[1])>> :
                  kc \in {kc \in (0..63) \X (0..127) :
                            (CurrentFile.bytes[PixelDataOffset(CurrentFile)
                                               + 16 * kc[1] + (kc[2] \div 8) + 1]
                               \div (2 ^ (7 - (kc[2] % 8)))) % 2 = 1}}

\* a well-formed tile has been decoded: the first byte read, 128, is the
\* single dot at the left end of the bottom row
GoodTileDecoded ==
    /\ draw_pc = "return"
    /\ CurrentFile = GoodFile
    /\ success
    /\ <<CurrentTile.tile_num, CurrentTile.screen_x, CurrentTile.screen_y + 63>>
          \in dots
    /\ <<CurrentTile.tile_num, CurrentTile.screen_x + 1, CurrentTile.screen_y + 63>>
          \notin dots

\* the visible rows and columns of the documentation
VisibleRows ==
    {r \in 0..9 : camera_y \div 64 <= r /\ r <= (camera_y + 64) \div 64}
VisibleCols ==
    {c \in 0..4 : camera_x \div 128 <= c /\ c <= (camera_x + 128) \div 128}
VisibleIndices == {r * 5 + c : r \in VisibleRows, c \in VisibleCols}

VisibleTileRange ==
    frame.drawn =>
        LET enumerated == {frame.tiles[k].tile_num : k \in 1..Len(frame.tiles)}
        IN  /\ enumerated = VisibleIndices
            /\ Len(frame.tiles) = Cardinality(VisibleIndices)
            /\ enumerated \subseteq 0..49
            /\ \A r \in 0..9, c \in 0..4 :
                  (/\ c * 128 < camera_x + 128 /\ camera_x < c * 128 + 128
                   /\ r * 64 < camera_y + 64 /\ camera_y < r * 64 + 64)
                  => r * 5 + c \in enumerated
            /\ (camera_x = 0 /\ camera_y = 0) => enumerated = {0, 1, 5, 6}

\* the frame drawn with the camera at (0, 0)
FrameAtOrigin ==
    /\ camera_x = 0
    /\ camera_y = 0
    /\ frame.drawn
    /\ Len(frame.tiles) = 4

\* the records a finished load leaves: the valid data lines after the first
\* line, in source order, up to the capacity of 200
LoadedAsExpected ==
    annotations
      = SubSeq(ExpectedRecords(source), 1,
               IF Len(ExpectedRecords(source)) <= 200
               THEN Len(ExpectedRecords(source)) ELSE 200)

\* C10: for an annotation source of at most 16384 bytes, a line without four
\* fields or with a tile index outside [0, 50) is skipped without stopping
\* the load: the loaded records are exactly the valid data lines after the
\* header, in source order, up to capacity.
TolerantParsing ==
    (load_pc = "done" /\ Len(FileData(source)) <= 16384) => LoadedAsExpected

\* C10 as stated, for any annotation source
TolerantParsingAnySource == load_pc = "done" => LoadedAsExpected

\* a three-field line before a valid line: the valid line is loaded
ValidLineAfterBadLine ==
    /\ load_pc = "done"
    /\ source = Source(TRUE, <<HeaderLine, ThreeFieldLine, PolarisLine>>, LF, TRUE)
    /\ annotations = <<PolarisRecord>>
    /\ load_ret

\* C11: every record stored in the annotation table has a tile index in
\* [0, 50), local_x in [0, 128), local_y in [0, 64) and a label of at most 63
\* characters.
AnnotationDataModel ==
    \A i \in 1..Len(annotations) :
        /\ annotations[i].tile_number \in 0..49
        /\ annotations[i].x \in 0..127
        /\ annotations[i].y \in 0..63
        /\ Len(annotations[i].text) <= 63

\* the source holds more valid data lines than the table has room for
MoreThanCapacity == Len(ExpectedRecords(source)) > 200
\* the load has ended with the first 200 valid data lines, in source order
FirstTwoHundredLoaded ==
    /\ annotations = SubSeq(ExpectedRecords(source), 1, 200)
    /\ load_ret
    /\ main_pc \in {"load", "loop"}

\* C12: the annotation count never exceeds 200; when a source of at most
\* 16384 bytes holds more than 200 valid data lines, exactly the first 200 in
\* source order are stored, the load ends normally and the application goes
\* on to the event loop with those 200 records.
CapacityRespected ==
    /\ Len(annotations) <= 200
    /\ (load_pc = "done" /\ MoreThanCapacity /\ Len(FileData(source)) <= 16384)
          => FirstTwoHundredLoaded

\* C12 as stated, for any source with more than 200 valid data lines
CapacityRespectedAnySource ==
    /\ Len(annotations) <= 200
    /\ (load_pc = "done" /\ MoreThanCapacity) => FirstTwoHundredLoaded

\* 201 valid lines were offered: the event loop runs with 200 records, the
\* last of them the 200th line
LoopWithFullTable ==
    /\ main_pc = "loop"
    /\ Len(ExpectedRecords(source)) = 201
    /\ Len(annotations) = 200
    /\ annotations[200] = ExpectedRecords(source)[200]
    /\ load_ret

\* the source cannot be opened, is empty, or holds no valid data line after
\* its first line
UnusableSource == ExpectedRecords(source) = <<>>
\* the load of an unusable source leaves no record, and the application goes
\* on to the event loop, where no camera position has an annotation
ZeroRecordsThenLoop ==
    /\ load_pc = "done" => annotations = <<>>
    /\ (load_pc = "done" /\ main_pc = "load") => ENABLED StartLoop
    /\ main_pc = "loop" =>
          /\ ~has_annotation
          /\ current_annotation = <<>>
          /\ \A cx \in {32 * i : i \in 0..16}, cy \in {32 * j : j \in 0..18} :
                ~check_annotations(cx, cy, annotations).has_annotation

FirstLineIsDataShaped ==
    /\ Len(FileData(source)) >= Len(DataShapedHeader.chars)
    /\ SubSeq(FileData(source), 1, Len(DataShapedHeader.chars))
         = DataShapedHeader.chars

\* C14: the first line of the source is never stored as a record, even when
\* it happens to parse as a valid data line; parsing of records begins with
\* the second line.
HeaderDiscarded ==
    /\ first_line => annotations = <<>>
    /\ FirstLineIsDataShaped =>
          \A i \in 1..Len(annotations) : annotations[i] # DataShapedHeader.rec[1]
    /\ (load_pc = "done" /\ Len(FileData(source)) <= MAX_FILE_SIZE
          /\ ExpectedRecords(source) # <<>>) =>
          /\ annotations # <<>>
          /\ annotations[1] = ExpectedRecords(source)[1]

\* a first line shaped like a record, then Polaris: only Polaris is loaded
DataShapedHeaderSkipped ==
    /\ load_pc = "done"
    /\ source = Source(TRUE, <<DataShapedHeader, PolarisLine>>, LF, TRUE)
    /\ annotations = <<PolarisRecord>>

\* the tile column and row of the cursor, by integer division as C does it
\* (the quotient truncated towards zero)
CursorCol ==
    IF CursorWorldX >= 0 THEN CursorWorldX \div 128 ELSE 0 - ((0 - CursorWorldX) \div 128)
CursorRow ==
    IF CursorWorldY >= 0 THEN CursorWorldY \div 64 ELSE 0 - ((0 - CursorWorldY) \div 64)

\* C15: for any camera position whatsoever, if the cursor's computed tile row
\* is outside [0,10) or its column is outside [0,5), the hit-test reports no
\* annotation: an out-of-range column or row is never wrapped into the
\* linear index of another tile.
OutOfGridReportsNone ==
    (main_pc = "called" /\ (CursorCol \notin 0..4 \/ CursorRow \notin 0..9)) =>
        (~has_annotation /\ current_annotation = <<>>)

\* C20: for every row in [0,10) and column in [0,5), the cursor placed on the
\* tile's world origin (col*128, row*64) is converted back to that row and
\* column and the local position (0, 0), so that the record at the origin of
\* tile row*5+col is the one reported; row*5+col maps the 50 pairs one-to-one
\* onto [0,50).
TileRoundTrip ==
    /\ \A r \in 0..9, c \in 0..4 :
          /\ CursorTile(c * 128 - 64, r * 64 - 32)
               = [cursor_tile_col |-> c, cursor_tile_row |-> r,
                  cursor_tile_num |-> r * 5 + c,
                  tile_local_x |-> 0, tile_local_y |-> 0]
          /\ (main_pc = "called" /\ CursorWorldX = c * 128 /\ CursorWorldY = r * 64) =>
                /\ has_annotation
                /\ current_annotation = TwoDigits(r * 5 + c)
    /\ {row_col_to_tile_num(r, c) : r \in 0..9, c \in 0..4} = 0..49
    /\ \A r1 \in 0..9, r2 \in 0..9, c1 \in 0..4, c2 \in 0..4 :
          row_col_to_tile_num(r1, c1) = row_col_to_tile_num(r2, c2) =>
              (r1 = r2 /\ c1 = c2)

\* the cursor on the origin of the last tile: its record is reported
LastTileOriginHit ==
    /\ main_pc = "called"
    /\ CursorWorldX = 4 * 128
    /\ CursorWorldY = 9 * 64
    /\ has_annotation
    /\ current_annotation = <<"4", "9">>

\* the event last taken from the queue is a Back key press or repeat
BackProcessed == event.key = "Back" /\ event.type \in {"Press", "Repeat"}

\* C16: the event loop terminates if and only if a Back key event of type
\* press or repeat is processed: the loop is left only with such an event as
\* the last one dequeued, whatever the load returned, and never with another
\* key, a release/short/long event or a queue timeout; once such a Back
\* event has been dequeued the loop exits at the end of that iteration and
\* no further event is dequeued.
ExitOnlyByBack ==
    /\ [](main_pc = "exit" => (BackProcessed /\ ~running))
    /\ [](main_pc = "loop" => (running /\ ~BackProcessed))
    /\ [](main_pc \in {"clamp", "check", "scan", "update", "while"}
            => (running <=> ~BackProcessed))
    /\ [][(main_pc = "while" /\ BackProcessed) => main_pc' \in {"while", "exit"}]_vars
    /\ (main_pc = "switch" /\ BackProcessed) ~> main_pc = "exit"
    /\ [][dequeued' # dequeued => (main_pc = "loop" /\ ~BackProcessed)]_vars
    /\ [][main_pc = "exit" => UNCHANGED vars]_vars

\* the loop left after a Back press as the first event, with a second event
\* still allowed by the bound
ExitAfterBack ==
    /\ main_pc = "exit"
    /\ event = [type |-> "Press", key |-> "Back"]
    /\ dequeued = 1
    /\ ~load_ret

\* the camera a frame was drawn for: the first tile's origin minus the
\* screen position it was drawn at
FrameCameraX == (frame.tiles[1].tile_num % 5) * 128 - frame.tiles[1].screen_x
FrameCameraY == (frame.tiles[1].tile_num \div 5) * 64 - frame.tiles[1].screen_y
\* the indices of the loaded records under the cursor of that frame
RecordsUnderFrameCursor ==
    {i \in 1..Len(annotations) :
        /\ annotations[i].tile_number
             = ((FrameCameraY + 32) \div 64) * 5 + ((FrameCameraX + 64) \div 128)
        /\ (((FrameCameraX + 64) % 128) - annotations[i].x)
             * (((FrameCameraX + 64) % 128) - annotations[i].x)
           + (((FrameCameraY + 32) % 64) - annotations[i].y)
             * (((FrameCameraY + 32) % 64) - annotations[i].y) <= 16}

\* C17: the processing of one input event is atomic with respect to redraws:
\* under every interleaving of the draw callback with the event loop, a frame
\* is drawn for a camera inside the clamp range, and with the banner of the
\* hit-test result computed for that camera (never one that was reset and
\* not yet recomputed).
DrawSeesSettledState ==
    frame.drawn =>
        /\ FrameCameraX \in 0..512
        /\ FrameCameraY \in 0..576
        /\ frame.banner.box <=> RecordsUnderFrameCursor # {}

\* C18: each processed Up/Down/Left/Right press or repeat changes its own
\* axis by 4 (Up: y-4, Down: y+4, Left: x-4, Right: x+4) and leaves the other
\* axis unchanged, then replaces a result below 0 by 0 and one above the
\* maximum (512 for x, 576 for y) by the maximum; the camera is back in
\* range when the switch is left, so that further Right/Down events at
\* (512, 576), and Left/Up events at (0, 0), leave it there.
StepAndSaturate ==
    /\ [][(main_pc = "switch" /\ main_pc' = "clamp") =>
            /\ event.key = "Up" => (camera_y' = camera_y - 4 /\ camera_x' = camera_x)
            /\ event.key = "Down" => (camera_y' = camera_y + 4 /\ camera_x' = camera_x)
            /\ event.key = "Left" => (camera_x' = camera_x - 4 /\ camera_y' = camera_y)
            /\ event.key = "Right" => (camera_x' = camera_x + 4 /\ camera_y' = camera_y)]_vars
    /\ [][(main_pc = "clamp" /\ main_pc' = "check") =>
            /\ camera_x' = (IF camera_x < 0 THEN 0
                            ELSE IF camera_x > 512 THEN 512 ELSE camera_x)
            /\ camera_y' = (IF camera_y < 0 THEN 0
                            ELSE IF camera_y > 576 THEN 576 ELSE camera_y)]_vars
    /\ [](main_pc = "clamp" =>
            (camera_x \in {0 - 4} \cup 0..512 \cup {516}
               /\ camera_y \in {0 - 4} \cup 0..576 \cup {580}))
    /\ [](main_pc \notin {"clamp"} => (camera_x \in 0..512 /\ camera_y \in 0..576))
    /\ [][(main_pc \notin {"switch", "clamp"}) =>
            (camera_x' = camera_x /\ camera_y' = camera_y)]_vars

\* two events processed, the last a Right press, the camera still in the
\* bottom-right corner
SaturatedAtCorner ==
    /\ main_pc = "loop"
    /\ dequeued = 2
    /\ event = [type |-> "Press", key |-> "Right"]
    /\ camera_x = 512
    /\ camera_y = 576

\* the event being processed is not a directional press or repeat
NonDirectional ==
    \/ event.key \notin {"Up", "Down", "Left", "Right"}
    \/ event.type \notin {"Press", "Repeat"}
\* the stored hit-test result is the one of the first record under the cursor
HitSettled ==
    /\ has_annotation <=> RecordsUnderCursor # {}
    /\ has_annotation =>
          /\ \E i \in RecordsUnderCursor :
                /\ \A j \in RecordsUnderCursor : i <= j
                /\ current_annotation = annotations[i].text
    /\ ~has_annotation => current_annotation = <<>>

\* C19: a move with zero delta never changes the camera (clamping a position
\* that is in range is the identity), and every event that is not a
\* directional press or repeat (OK, Back, any other key, any release, short
\* or long event) leaves camera_x, camera_y and the annotation table
\* unchanged, and the hit-test result after it is the one before it: that of
\* the unchanged camera.
ZeroDeltaFrame ==
    /\ [][(main_pc # "loop" /\ NonDirectional) =>
            (camera_x' = camera_x /\ camera_y' = camera_y)]_vars
    /\ [][annotations' = annotations]_vars
    /\ [][(main_pc = "clamp" /\ camera_x \in 0..512 /\ camera_y \in 0..576) =>
            (camera_x' = camera_x /\ camera_y' = camera_y)]_vars
    /\ []((main_pc \in {"loop", "update", "while", "exit"}
             \/ (NonDirectional /\ main_pc \in {"got", "switch", "clamp", "check"}))
            => HitSettled)

\* an OK press processed with Polaris under the cursor: the label is kept
OkPressKeepsLabel ==
    /\ main_pc = "while"
    /\ event = [type |-> "Press", key |-> "Ok"]
    /\ camera_x = 256
    /\ camera_y = 320
    /\ has_annotation
    /\ current_annotation = PolarisRecord.text

\* C23: parse_csv_line respects max_fields: for every input line it returns
\* a field count of at most max_fields (10 in both callers) and never writes
\* to fields[i] with i >= max_fields, also for lines with max_fields or more
\* commas or ending with a comma, and never writes past index
\* MAX_LINE_LENGTH - 1 = 255 inside a field.
ParseWithinFields ==
    main_pc = "called" =>
        /\ csv_result.field_count <= 10
        /\ \A w \in csv_result.written : w[1] < 10 /\ w[2] <= 255

\* C21: in the variant with tiles.csv, given a tiles.csv that lists all 50
\* tiles of the 5 x 10 map and an annotations.csv whose tile names match the
\* file names, whenever the cursor is within 4 pixels of an annotation on the
\* tile under the cursor the annotation's text is shown, for every one of
\* the 50 tiles (every camera of this specification puts the cursor at most
\* 4 pixels from the record in the middle of the tile under it).
EveryListedTileFound ==
    main_pc = "loop" =>
        /\ has_annotation
        /\ current_annotation
             = TwoDigits((CursorWorldY \div 64) * 5 + (CursorWorldX \div 128))

\* the pixel (px, py) of the image in file f is a 1-bit: display row py is
\* stride 63 - py, column px is bit 7 - (px mod 8) of byte px div 8
ForegroundAt(f, px, py) ==
    (f.bytes[PixelDataOffset(f) + 16 * (63 - py) + (px \div 8) + 1]
       \div (2 ^ (7 - (px % 8)))) % 2 = 1
\* the tile file of the world pixel (wx, wy)
FileOfWorldPixel(wx, wy) == TileFile(disk, (wy \div 64) * 5 + (wx \div 128))
\* the screen pixels whose tile image is well-formed
ScreenOverGoodTiles ==
    {s \in (0..127) \X (0..63) :
        /\ WellFormedHeader(FileOfWorldPixel(camera_x + s[1], camera_y + s[2]))
        /\ AllStridesPresent(FileOfWorldPixel(camera_x + s[1], camera_y + s[2]))}

\* C22: for every camera position and well-formed tile images, after the
\* tile phase of a redraw a screen pixel (sx, sy), 0 <= sx < 128 and
\* 0 <= sy < 64, has been set by a tile blit if and only if the world pixel
\* (camera_x + sx, camera_y + sy) is a foreground pixel of the map assembled
\* from the tiles.
ViewportRefinement ==
    draw_pc \in {"cursor", "banner", "done"} =>
        \E good \in {ScreenOverGoodTiles} :
            {<<d[2], d[3]>> : d \in dots} \cap good
              = {s \in good :
                   ForegroundAt(FileOfWorldPixel(camera_x + s[1], camera_y + s[2]),
                                (camera_x + s[1]) % 128, (camera_y + s[2]) % 64)}

\* a redraw over four well-formed tiles, all decoded: the screen shows the
\* lower right part of tile 6, whose stride 0 ends in the byte 1 (the pixel
\* at column 127 of its bottom row)
FourGoodTilesDrawn ==
    /\ draw_pc = "done"
    /\ disk = 13
    /\ camera_x = 132
    /\ camera_y = 68
    /\ returned = <<TRUE, TRUE, TRUE, TRUE>>
    /\ <<6, 127 - 4, 63 - 4>> \in dots

\* the camera after the events of log, applied one after the other
RECURSIVE CameraAfter(_, _)
CameraAfter(log, cam) ==
    IF log = <<>> THEN cam
    ELSE CameraAfter(Tail(log),
                     IF Head(log).type \in {"Press", "Repeat"}
                     THEN MoveCamera(Head(log).key, cam[1], cam[2])
                     ELSE cam)

\* no press of Back among the first n events of log
NoBackPressIn(log, n) ==
    \A j \in 1..n : ~(log[j].key = "Back" /\ log[j].type = "Press")

IsPrefix(s, t) == Len(s) <= Len(t) /\ SubSeq(t, 1, Len(s)) = s

\* the number of events put so far that the loop is due to get: all of them,
\* or those up to the first press of Back, after which the loop ends
Due ==
    CHOOSE n \in 0..Delivered :
        /\ NoBackPressIn(arrived, n - 1)
        /\ (n = Delivered \/ ~NoBackPressIn(arrived, n))

RecordWorldX(a) == (a.tile_number % TILE_COLS) * TILE_WIDTH + a.x
RecordWorldY(a) == (a.tile_number \div TILE_COLS) * TILE_HEIGHT + a.y

\* the record is more than CURSOR_RADIUS pixels outside the rectangle
\* [64, 576] x [32, 608]
BeyondCursorRegion(a) ==
    \/ RecordWorldX(a) < 64 - CURSOR_RADIUS
    \/ RecordWorldX(a) > 576 + CURSOR_RADIUS
    \/ RecordWorldY(a) < 32 - CURSOR_RADIUS
    \/ RecordWorldY(a) > 608 + CURSOR_RADIUS

\* C25: in every reachable state the cursor world position lies in
\* [64, 576] x [32, 608], its tile row is in 0..9, its column in 0..4 and its
\* tile index in 0..49, so the out-of-bounds return of the hit test is not
\* taken; a record of a tile of the map whose world position is more than 4
\* pixels outside that rectangle is never the one reported.
CursorRegion ==
    /\ camera_x + 64 \in 64..576
    /\ camera_y + 32 \in 32..608
    /\ CursorTile(camera_x, camera_y).cursor_tile_row \in 0..9
    /\ CursorTile(camera_x, camera_y).cursor_tile_col \in 0..4
    /\ CursorTile(camera_x, camera_y).cursor_tile_num \in 0..49
    /\ \A i \in 1..Len(annotations) :
          (annotations[i].tile_number \in 0..49 /\ BeyondCursorRegion(annotations[i]))
              => ~(has_annotation /\ current_annotation = annotations[i].text)

\* the camera in the upper left corner of the map: the record four pixels
\* left of the region is reported, the one five pixels left is loaded and
\* is not
CornerRecordReported ==
    /\ main_pc = "loop"
    /\ camera_x = 0
    /\ camera_y = 0
    /\ has_annotation
    /\ current_annotation = <<"I","n">>
    /\ \E i \in 1..Len(annotations) :
          annotations[i].text = <<"O","u","t">> /\ BeyondCursorRegion(annotations[i])

\* C26: in every reachable state camera_x and camera_y are multiples of 4
\* (they start at 256 and 288, move by 4 and are clamped to 0, 512 and 576),
\* so they are whole numbers, the conversions to int in the hit test and in
\* the draw callback change nothing, and the tile-local coordinates of the
\* cursor are multiples of 4.
CameraLattice ==
    /\ camera_x % move_speed = 0
    /\ camera_y % move_speed = 0
    /\ camera_x \in Int /\ camera_y \in Int
    /\ CursorTile(camera_x, camera_y).tile_local_x % 4 = 0
    /\ CursorTile(camera_x, camera_y).tile_local_y % 4 = 0

\* one step right of the centre, at the upper bound after a clamp at 0:
\* the cursor is at (68, 32) of tile 2
ClampedOnLattice ==
    /\ main_pc = "loop"
    /\ event = NoEvent
    /\ camera_x = 260
    /\ camera_y = 0
    /\ CursorTile(camera_x, camera_y).cursor_tile_num = 2
    /\ CursorTile(camera_x, camera_y).tile_local_x = 68
    /\ CursorTile(camera_x, camera_y).tile_local_y = 32

====
